---- MODULE Spec2Model ----
(***************************************************************************)
(* A model of workhorse's three service registries:                        *)
(*   - ScriptExecutor          (src-tauri/src/services/script_executor.rs) *)
(*   - TerminalService         (src-tauri/src/services/terminal_service.rs)*)
(*   - WorkspaceManagerService (src-tauri/src/services/workspace_service.rs)*)
(* Each lock-protected region of a handler is one atomic step.  I/O that   *)
(* only the handler itself observes (the temporary script file) is folded  *)
(* into the region that follows it; I/O that others observe (killing a     *)
(* shell) is a step of its own.  A WorkspaceManagerService call, which     *)
(* holds no lock and works on files, is one step.                          *)
(***************************************************************************)
EXTENDS Integers, Sequences, FiniteSets, Bags, TLC

VARIABLES
    now,            \* SystemTime::now() in milliseconds
    executions,     \* ScriptExecutor.executions : id -> ScriptExecution
    running_count,  \* ScriptExecutor.running_count
    script_files,   \* temp_script_<id>.sh files that exist on disk
    calls,          \* execute_script calls in flight (a bag of frames)
    calls_started,  \* how many execute_script calls have been admitted so far
    exec_ret,       \* what the last returned ScriptExecutor call returned
    locks,          \* per thread: the Mutex guards held and the lock steps left
    terminals,      \* TerminalService.terminals : id -> TerminalInstance
    creating,       \* create_terminal calls past the cap check (a bag)
    children,       \* pids of the shell processes that are alive
    killing,        \* pids close_terminal has taken and not yet killed
    pumps,          \* the stdin, stdout and stderr tasks that are running
    term_ret,       \* what the last returned TerminalService call returned
    workspaces,     \* .workhorse/workspaces/<id>.json : id -> WorkspaceMetadata
    workspace_index,\* .workhorse/configs/workspace_index.json
    dirs,           \* the workspace directories that exist on disk
    worktrees,      \* the repository's worktrees : name -> path
    issued,         \* how many workspace ids Uuid::new_v4() has handed out
    ws_loaded,      \* records loaded by calls that have not saved yet (a bag)
    ws_ret          \* what the last returned WorkspaceManagerService call returned

exec_vars == <<executions, running_count, script_files, calls, calls_started,
              exec_ret, locks>>

term_vars == <<terminals, creating, children, killing, pumps, term_ret>>

ws_vars == <<workspaces, workspace_index, dirs, worktrees, issued, ws_loaded,
            ws_ret>>
vars == <<now, exec_vars, term_vars, ws_vars>>

\* what a ScriptExecutor step leaves alone, and what a TerminalService step does
non_exec_vars == <<term_vars, ws_vars>>
non_term_vars == <<exec_vars, ws_vars>>
non_ws_vars == <<exec_vars, term_vars>>

\* ---------------------------------------------------------------- bounds

\* the clock stops at MaxTime
MaxTime == 1
\* execute_script calls admitted over a whole run
MaxCalls == 2
\* execute_script calls admitted over a run in which the clock advances
MaxTimedCalls == 1
\* execute_script calls admitted beyond max_concurrent_executions, where the
\* cap is what is looked at
MaxExtraCalls == 1
\* create_terminal calls that may be between their cap check and their insert
MaxCreating == 2
\* output records held in histories and output channels together (beyond the
\* initial histories)
MaxRecords == 3
\* process ids the system has to give
MaxPids == 2

\* workspace ids handed out
MaxWorkspaces == 2

\* ------------------------------------------------------- general helpers

None == <<>>
Some(x) == <<x>>

EmptyMap == [k \in {} |-> k]

insert(map, key, value) ==
    [k \in DOMAIN map \cup {key} |-> IF k = key THEN value ELSE map[k]]

remove_keys(map, keys) == [k \in DOMAIN map \ keys |-> map[k]]

\* the orders in which a directory listing or a HashMap can yield a set of ids
RECURSIVE orders_of(_)
orders_of(ids) ==
    IF ids = {} THEN {<<>>}
    ELSE UNION { {<<w>> \o rest : rest \in orders_of(ids \ {w})} : w \in ids }

Times == 0..MaxTime

\* the wall clock advances between any two steps
Tick(limit) ==
    /\ now < limit
    /\ now' = now + 1
    /\ UNCHANGED <<exec_vars, term_vars, ws_vars>>

\* =========================================================================
\* ScriptExecutor
\* =========================================================================

max_concurrent_executions == 5
max_script_len == 10000

dangerous_patterns ==
    << <<"r","m"," ","-","r","f">>,
       <<"s","u","d","o"," ","r","m">>,
       <<"f","o","r","m","a","t">>,
       <<"d","e","l"," ","/","f">>,
       <<"s","h","u","t","d","o","w","n">>,
       <<"r","e","b","o","o","t">>,
       <<"h","a","l","t">>,
       <<"p","o","w","e","r","o","f","f">>,
       <<"i","n","i","t"," ","0">>,
       <<"i","n","i","t"," ","6">>,
       <<"d","d"," ","i","f","=">>,
       <<"m","k","f","s">> >>

\* A script is its text followed by `pad` newline characters: no pattern
\* holds a newline, so the padding adds length and no match.
script_len(script_content) == Len(script_content.text) + script_content.pad

\* str::contains
contains(text, pattern) ==
    \E i \in 1..(Len(text) - Len(pattern) + 1) :
        SubSeq(text, i, i + Len(pattern) - 1) = pattern

Ok == [ok |-> TRUE, err |-> ""]
Err(msg) == [ok |-> FALSE, err |-> msg]

\* validate_script without its length check
validate_script_any_length(script_content) ==
    IF \E p \in DOMAIN dangerous_patterns :
            contains(script_content.text, dangerous_patterns[p])
    THEN Err("Script contains potentially dangerous command")
    ELSE Ok

validate_script(script_content) ==
    IF \E p \in DOMAIN dangerous_patterns :
            contains(script_content.text, dangerous_patterns[p])
    THEN Err("Script contains potentially dangerous command")
    ELSE IF script_len(script_content) > max_script_len
    THEN Err("Script content too long (max 10000 characters)")
    ELSE Ok

\* The filesystem the working directories live in.
path_kind ==
    [p \in {"/repo-ws", "/missing", "/notes.txt"} |->
        CASE p = "/repo-ws" -> "dir"
          [] p = "/missing" -> "absent"
          [] OTHER -> "file"]

prepare_environment(working_dir) ==
    IF path_kind[working_dir] = "absent"
    THEN Err("Working directory does not exist")
    ELSE IF path_kind[working_dir] # "dir"
    THEN Err("Working directory is not a directory")
    ELSE Ok

generate_execution_id(timestamp) == <<"exec_", timestamp>>

\* Result<String, String> of create_execution
OkId(id) == [ok |-> TRUE, err |-> "", id |-> id]

\* what the last call returned: the operation and whether it was Ok(..)
Returned(op, res) == [op |-> op, ok |-> res.ok]

\* ------------------------------------------------------- input domains

echo_hi == <<"e","c","h","o"," ","h","i">>

ScriptInputs ==
    { [text |-> echo_hi, pad |-> 0],
      [text |-> echo_hi, pad |-> max_script_len - Len(echo_hi) + 1],
      [text |-> <<"r","m"," ","-","r","f"," ","/">>, pad |-> 0],
      [text |-> <<"e","c","h","o"," ","i","n","f","o","r","m","a","t","i","o","n">>,
       pad |-> 0] }

WorkingDirs == DOMAIN path_kind

ValidDirs == {wd \in WorkingDirs : path_kind[wd] = "dir"}

EnvInputs == {None}

\* validate_script on each of the scripts a call can bring
validated == [c \in ScriptInputs |-> validate_script(c)]

ExecIds == {generate_execution_id(t) : t \in Times}

\* ------------------------------------------------------------- actions

\* create_execution refusing only above the cap (> for >=)
create_execution_result_above_cap(script_content, working_directory) ==
    LET valid == validated[script_content]
        prepared == prepare_environment(working_directory)
    IN
    IF ~valid.ok THEN valid
    ELSE IF ~prepared.ok THEN prepared
    ELSE IF running_count > max_concurrent_executions
    THEN Err("Maximum concurrent executions reached")
    ELSE OkId(generate_execution_id(now))

\* what create_execution returns in the current state
create_execution_result(script_content, working_directory) ==
    LET valid == validated[script_content]
        prepared == prepare_environment(working_directory)
    IN
    IF ~valid.ok THEN valid
    ELSE IF ~prepared.ok THEN prepared
    ELSE IF running_count >= max_concurrent_executions
    THEN Err("Maximum concurrent executions reached")
    ELSE OkId(generate_execution_id(now))

new_execution(execution_id, script_content, working_directory, environment) ==
    [id |-> execution_id,
     script_content |-> script_content,
     working_directory |-> working_directory,
     environment |-> IF environment = None THEN EmptyMap ELSE environment[1],
     status |-> "Pending",
     start_time |-> None,
     end_time |-> None,
     exit_code |-> None,
     stdout |-> "",
     stderr |-> ""]

create_execution(script_content, working_directory, environment) ==
    LET res == create_execution_result(script_content, working_directory) IN
    /\ exec_ret' = Returned("create_execution", res)
    /\ executions' =
          IF res.ok
          THEN insert(executions, res.id,
                      new_execution(res.id, script_content, working_directory,
                                    environment))
          ELSE executions
    /\ UNCHANGED <<now, non_exec_vars, locks, running_count, script_files, calls,
                   calls_started>>

add_call(call) == calls (+) SetToBag({call})
drop_call(call) == calls (-) SetToBag({call})

\* execute_script, lines 168-182: clone the record and mark the clone Running
execute_script_load(execution_id) ==
    /\ UNCHANGED <<now, non_exec_vars, locks, executions, running_count, script_files>>
    /\ IF execution_id \notin DOMAIN executions
       THEN /\ exec_ret' = Returned("execute_script", Err("Execution not found"))
            /\ UNCHANGED <<calls, calls_started>>
       ELSE /\ calls_started' = calls_started + 1
            /\ calls' = add_call(
                    [pc |-> "loaded",
                     execution |-> [executions[execution_id] EXCEPT
                                        !.status = "Running",
                                        !.start_time = Some(now)]])
            /\ UNCHANGED exec_ret

\* execute_script, lines 184-190: store the clone, count it as running
execute_script_commit_running(call) ==
    /\ call.pc = "loaded"
    /\ executions' = insert(executions, call.execution.id, call.execution)
    /\ running_count' = running_count + 1
    /\ calls' = (calls (-) SetToBag({call}))
                    (+) SetToBag({[call EXCEPT !.pc = "running"]})
    /\ UNCHANGED <<now, non_exec_vars, locks, script_files, calls_started, exec_ret>>

\* What the I/O of run_script_internal can come to.
RunOutcomes ==
    {"exit0", "exit1", "signalled", "write_failed", "chmod_failed", "spawn_failed"}

\* the outcomes in which the child ran and ended
EndedOutcomes == {"exit0", "exit1", "signalled"}

script_file(execution) == <<execution.working_directory, execution.id>>

\* run_script_internal's effect on the disk: write the temporary file, make it
\* executable, run sh on it, remove it; each `?` returns past the remove_file
files_after_run(files, execution, outcome) ==
    CASE outcome \in {"exit0", "exit1", "signalled"} ->
            files \ {script_file(execution)}
      [] outcome = "write_failed" -> files
      [] OTHER -> files \cup {script_file(execution)}

NoResult == [success |-> FALSE, exit_code |-> None, stdout |-> "", stderr |-> ""]

\* the Result<ScriptExecutionResult, String> of run_script_internal
run_script_internal(outcome) ==
    CASE outcome = "exit0" ->
            [ok |-> TRUE, err |-> "",
             result |-> [success |-> TRUE, exit_code |-> Some(0),
                         stdout |-> "out", stderr |-> ""]]
      [] outcome = "exit1" ->
            [ok |-> TRUE, err |-> "",
             result |-> [success |-> FALSE, exit_code |-> Some(1),
                         stdout |-> "", stderr |-> "err"]]
      [] outcome = "signalled" ->
            [ok |-> TRUE, err |-> "",
             result |-> [success |-> FALSE, exit_code |-> None,
                         stdout |-> "", stderr |-> ""]]
      [] outcome = "write_failed" ->
            [ok |-> FALSE, err |-> "Failed to write script file",
             result |-> NoResult]
      [] outcome = "chmod_failed" ->
            [ok |-> FALSE, err |-> "Failed to set script file permissions",
             result |-> NoResult]
      [] OTHER ->
            [ok |-> FALSE, err |-> "Failed to execute script",
             result |-> NoResult]

\* a decrement that is not made
never_sub(a, b) == a

saturating_sub(a, b) == IF a >= b THEN a - b ELSE 0

\* finished_execution taking every run that returned for a success
finished_execution_always_completed(execution, outcome, end_time) ==
    LET r == run_script_internal(outcome) IN
    IF r.ok
    THEN [execution EXCEPT
            !.end_time = Some(end_time),
            !.status = "Completed",
            !.exit_code = r.result.exit_code,
            !.stdout = r.result.stdout,
            !.stderr = r.result.stderr]
    ELSE [execution EXCEPT !.end_time = Some(end_time), !.status = "Failed"]

\* the record execute_script stores once run_script_internal has returned
finished_execution(execution, outcome, end_time) ==
    LET r == run_script_internal(outcome) IN
    IF r.ok
    THEN [execution EXCEPT
            !.end_time = Some(end_time),
            !.status = IF r.result.success THEN "Completed" ELSE "Failed",
            !.exit_code = r.result.exit_code,
            !.stdout = r.result.stdout,
            !.stderr = r.result.stderr]
    ELSE [execution EXCEPT !.end_time = Some(end_time), !.status = "Failed"]

\* execute_script, lines 192-226: run the script, stamp the end, store the
\* outcome, uncount, return.  The run touches only the temporary file, which
\* no other step reads, so it is taken together with the commit after it.
execute_script_finish(call, outcome) ==
    /\ call.pc = "running"
    /\ script_files' = files_after_run(script_files, call.execution, outcome)
    /\ executions' = insert(executions, call.execution.id,
                            finished_execution(call.execution, outcome, now))
    /\ running_count' = saturating_sub(running_count, 1)
    /\ calls' = drop_call(call)
    /\ exec_ret' = Returned("execute_script", run_script_internal(outcome))
    /\ UNCHANGED <<now, non_exec_vars, locks, calls_started>>

\* cancel_execution accepting an execution whatever its status
cancel_execution_result_any_status(execution_id) ==
    IF execution_id \in DOMAIN executions
    THEN Ok
    ELSE Err("Execution not found")

\* what cancel_execution returns in the current state
cancel_execution_result(execution_id) ==
    IF execution_id \in DOMAIN executions
    THEN IF executions[execution_id].status \in {"Pending", "Running"}
         THEN Ok
         ELSE Err("Cannot cancel execution in current status")
    ELSE Err("Execution not found")

cancel_execution(execution_id) ==
    LET res == cancel_execution_result(execution_id) IN
    /\ exec_ret' = Returned("cancel_execution", res)
    /\ executions' =
          IF res.ok
          THEN [executions EXCEPT ![execution_id].status = "Cancelled",
                                  ![execution_id].end_time = Some(now)]
          ELSE executions
    /\ UNCHANGED <<now, non_exec_vars, locks, running_count, script_files, calls,
                   calls_started>>

TerminalStates == {"Completed", "Failed", "Cancelled"}

unwrap_or(option, default) == IF option = None THEN default ELSE option[1]

\* the end_time the sort of cleanup_completed_executions compares
end_time_or_zero(id) == unwrap_or(executions[id].end_time, 0)

\* the comparator with its operands swapped: oldest first
placed_before_oldest_first(earlier, id) ==
    end_time_or_zero(earlier) <= end_time_or_zero(id)

\* b_time.cmp(&a_time) in a stable sort: an id that came earlier stays in
\* front of `id` unless it ended strictly before it
placed_before(earlier, id) ==
    end_time_or_zero(earlier) >= end_time_or_zero(id)

\* sort_by of lines 330-334 as a stable insertion sort
RECURSIVE sort_by_end_time(_)
sort_by_end_time(ids) ==
    IF ids = <<>> THEN <<>>
    ELSE LET id == ids[Len(ids)]
             front == sort_by_end_time(SubSeq(ids, 1, Len(ids) - 1))
             n == Cardinality({i \in 1..Len(front) : placed_before(front[i], id)})
         IN SubSeq(front, 1, n) \o <<id>> \o SubSeq(front, n + 1, Len(front))

\* cleanup_completed_executions: the terminal-state ids, collected in the
\* HashMap's order, sorted by end_time newest first; all after the first
\* keep_count are removed.
cleanup_completed_executions(keep_count) ==
    LET completed == {id \in DOMAIN executions :
                        executions[id].status \in TerminalStates}
    IN
    /\ \E values \in orders_of(completed) :
          LET completed_execution_ids == sort_by_end_time(values) IN
          executions' =
            remove_keys(executions,
                        IF Len(completed_execution_ids) > keep_count
                        THEN {completed_execution_ids[i] :
                                i \in keep_count + 1 .. Len(completed_execution_ids)}
                        ELSE {})
    /\ exec_ret' = Returned("cleanup_completed_executions", Ok)
    /\ UNCHANGED <<now, non_exec_vars, locks, running_count, script_files, calls,
                   calls_started>>

KeepCounts == {0, 1}


\* -------------------------------------------------------------------------
\* The two std::sync::Mutex locks of ScriptExecutor, a thread at a time.  A
\* call is the sequence of lock() and guard drops its code goes through;
\* what the call does to the data under the locks is in the actions above.
\* -------------------------------------------------------------------------

Threads == 1..MaxCalls

\* a block that locks one Mutex and drops the guard at its end
locked_alone(name) ==
    <<[do |-> "lock", on |-> name], [do |-> "drop", on |-> name]>>

\* a block that locks `outer`, then `inner`; the guards are dropped in the
\* reverse order of their declaration
locked_nested(outer, inner) ==
    <<[do |-> "lock", on |-> outer], [do |-> "lock", on |-> inner],
      [do |-> "drop", on |-> inner], [do |-> "drop", on |-> outer]>>

\* create_execution: the cap check under running_count, then, when admitted,
\* the insert under executions
create_execution_locks(admitted) ==
    locked_alone("running_count")
    \o (IF admitted THEN locked_alone("executions") ELSE <<>>)

\* execute_script with the block that stores the result taking the counter
\* before the registry
execute_script_locks_counter_first(found) ==
    locked_alone("executions")
    \o (IF found
        THEN locked_nested("executions", "running_count")
             \o locked_nested("running_count", "executions")
        ELSE <<>>)

\* execute_script: the lookup under executions, then, when the record was
\* found, the block that marks it Running and the block that stores the
\* result, each under executions with running_count locked inside it
execute_script_locks(found) ==
    locked_alone("executions")
    \o (IF found
        THEN locked_nested("executions", "running_count")
             \o locked_nested("executions", "running_count")
        ELSE <<>>)

\* cancel_execution, get_execution_status, get_all_executions and
\* cleanup_completed_executions: the whole body under executions
registry_only_locks == locked_alone("executions")

\* a thread that is in no call starts one
call_begins(thread, steps) ==
    /\ locks[thread].steps = <<>>
    /\ locks' = [locks EXCEPT ![thread].steps = steps]
    /\ UNCHANGED <<now, non_exec_vars, executions, running_count, script_files,
                   calls, calls_started, exec_ret>>

\* the next lock() or guard drop of a thread: lock() returns only while no
\* thread holds the Mutex
lock_step(thread) ==
    /\ locks[thread].steps # <<>>
    /\ LET step == Head(locks[thread].steps) IN
       /\ step.do = "lock" => \A t \in Threads : step.on \notin locks[t].held
       /\ locks' = [locks EXCEPT
                        ![thread].steps = Tail(@),
                        ![thread].held = IF step.do = "lock"
                                         THEN @ \cup {step.on}
                                         ELSE @ \ {step.on}]
    /\ UNCHANGED <<now, non_exec_vars, executions, running_count, script_files,
                   calls, calls_started, exec_ret>>

NextExecLocks ==
    \/ \E thread \in Threads, admitted \in BOOLEAN :
            call_begins(thread, create_execution_locks(admitted))
    \/ \E thread \in Threads, found \in BOOLEAN :
            call_begins(thread, execute_script_locks(found))
    \/ \E thread \in Threads : call_begins(thread, registry_only_locks)
    \/ \E thread \in Threads : lock_step(thread)

InitExec ==
    /\ executions = EmptyMap
    /\ running_count = 0
    /\ script_files = {}
    /\ calls = EmptyBag
    /\ calls_started = 0
    /\ exec_ret = Returned("none", Ok)
    /\ locks = [thread \in Threads |-> [steps |-> <<>>, held |-> {}]]

\* =========================================================================
\* TerminalService
\* =========================================================================

max_terminals == 10
max_history_size == 1000
\* output_history.drain(..100)
history_drain == 100

generate_terminal_id(timestamp) == <<"term_", timestamp>>

TermIds == {generate_terminal_id(t) : t \in Times}

Pids == 1..MaxPids

NameInputs == {None}
CommandInputs == {"ls"}
OutputLines == {"line"}

TerminalOutput(timestamp, content, output_type) ==
    [timestamp |-> timestamp, content |-> content, output_type |-> output_type]

\* an input or output channel: the pid of the shell whose pumps serve it, and
\* what has been sent on it and not yet received
Channel(pid, queue) == [pid |-> pid, queue |-> queue]

\* pids held by a process handle or naming a channel in the registry
pids_in(registry) ==
    UNION { (IF registry[t].process = None THEN {} ELSE {registry[t].process[1]})
            \cup (IF registry[t].input_sender = None
                  THEN {} ELSE {registry[t].input_sender[1].pid})
            \cup (IF registry[t].output_receiver = None
                  THEN {} ELSE {registry[t].output_receiver[1].pid})
            : t \in DOMAIN registry }

\* the children whose handles are dropped with the instances `dropped`:
\* kill_on_drop(true)
handles_of(instances) ==
    UNION { IF i.process = None THEN {} ELSE {i.process[1]} : i \in instances }

\* the history cut back to max_history_size, however many records that takes
limit_history_to_fit(output_history) ==
    IF Len(output_history) > max_history_size
    THEN SubSeq(output_history, Len(output_history) - max_history_size + 1,
                Len(output_history))
    ELSE output_history

\* lines 290-293 and 364-367: past max_history_size, the oldest 100 go
limit_history(output_history) ==
    IF Len(output_history) > max_history_size
    THEN SubSeq(output_history, history_drain + 1, Len(output_history))
    ELSE output_history

\* what create_terminal returns when it returns before its insert
create_terminal_rejection(working_directory) ==
    IF Cardinality(DOMAIN terminals) >= max_terminals
    THEN Err("Maximum number of terminals reached")
    ELSE IF path_kind[working_directory] # "dir"
    THEN Err("Invalid working directory")
    ELSE Ok

\* create_terminal, lines 118-129: the cap check under the lock, then the
\* directory check
create_terminal_check(name, working_directory, environment) ==
    LET res == create_terminal_rejection(working_directory) IN
    /\ IF res.ok
       THEN /\ creating' = creating (+) SetToBag({
                    [name |-> name, working_directory |-> working_directory,
                     environment |-> environment] })
            /\ UNCHANGED term_ret
       ELSE /\ term_ret' = Returned("create_terminal", res)
            /\ UNCHANGED creating
    /\ UNCHANGED <<now, non_term_vars, pumps, terminals, children, killing>>

new_terminal(terminal_id, frame, timestamp) ==
    [session |->
        [id |-> terminal_id,
         name |-> IF frame.name = None
                  THEN <<"Terminal ", terminal_id>> ELSE frame.name[1],
         working_directory |-> frame.working_directory,
         environment |-> IF frame.environment = None
                         THEN EmptyMap ELSE frame.environment[1],
         status |-> "Inactive",
         created_at |-> timestamp,
         last_activity |-> timestamp,
         output_history |-> <<>>],
     process |-> None,
     input_sender |-> None,
     output_receiver |-> None]

\* create_terminal, lines 131-159: name the session after the clock and
\* insert it under the lock; an instance the insert replaces is dropped
create_terminal_insert(frame) ==
    LET terminal_id == generate_terminal_id(now)
        replaced == IF terminal_id \in DOMAIN terminals
                    THEN {terminals[terminal_id]} ELSE {}
    IN
    /\ creating' = creating (-) SetToBag({frame})
    /\ terminals' = insert(terminals, terminal_id,
                           new_terminal(terminal_id, frame, now))
    /\ children' = children \ handles_of(replaced)
    /\ term_ret' = Returned("create_terminal", Ok)
    /\ UNCHANGED <<now, non_term_vars, pumps, killing>>

free_pids == Pids \ (children \cup killing \cup pids_in(terminals))

\* the three tasks start_terminal spawns for the shell `pid`
PumpKinds == {"stdin", "stdout", "stderr"}

spawned_pumps(pid) == {[pid |-> pid, kind |-> k] : k \in PumpKinds}

\* start_terminal without its check of the status
start_terminal_result_restarting(terminal_id, spawned) ==
    IF terminal_id \notin DOMAIN terminals THEN Err("Terminal not found")
    ELSE IF ~spawned \/ free_pids = {}
    THEN Err("Failed to start terminal process")
    ELSE Ok

\* what start_terminal returns; `spawned` is whether cmd.spawn() succeeds
start_terminal_result(terminal_id, spawned) ==
    IF terminal_id \notin DOMAIN terminals THEN Err("Terminal not found")
    ELSE IF terminals[terminal_id].session.status = "Active"
    THEN Err("Terminal is already active")
    ELSE IF ~spawned \/ free_pids = {}
    THEN Err("Failed to start terminal process")
    ELSE Ok

started_terminal(terminal, pid, timestamp) ==
    [terminal EXCEPT
        !.process = Some(pid),
        !.input_sender = Some(Channel(pid, <<>>)),
        !.output_receiver = Some(Channel(pid, <<>>)),
        !.session.status = "Active",
        !.session.last_activity = timestamp,
        !.session.output_history =
            Append(@, TerminalOutput(timestamp,
                                     <<"Terminal", terminal.session.id, "started">>,
                                     "System"))]

\* start_terminal: one region under the lock, the spawn included
start_terminal(terminal_id, spawned) ==
    LET res == start_terminal_result(terminal_id, spawned)
        pid == CHOOSE p \in free_pids : \A q \in free_pids : p <= q
    IN
    /\ term_ret' = Returned("start_terminal", res)
    /\ IF res.ok
       THEN /\ terminals' = [terminals EXCEPT
                    ![terminal_id] = started_terminal(@, pid, now)]
            /\ children' = (children \ handles_of({terminals[terminal_id]}))
                                \cup {pid}
            /\ pumps' = pumps \cup spawned_pumps(pid)
       ELSE UNCHANGED <<terminals, children, pumps>>
    /\ UNCHANGED <<now, non_term_vars, creating, killing>>

\* send_command going on when input_sender.send() has failed
send_command_result_unchecked(terminal_id, enqueued) ==
    IF terminal_id \notin DOMAIN terminals THEN Err("Terminal not found")
    ELSE IF terminals[terminal_id].session.status # "Active"
    THEN Err("Terminal is not active")
    ELSE IF terminals[terminal_id].input_sender = None
    THEN Err("Terminal input channel not available")
    ELSE Ok

\* what send_command returns; `enqueued` is whether input_sender.send()
\* finds the stdin pump still receiving
send_command_result(terminal_id, enqueued) ==
    IF terminal_id \notin DOMAIN terminals THEN Err("Terminal not found")
    ELSE IF terminals[terminal_id].session.status # "Active"
    THEN Err("Terminal is not active")
    ELSE IF terminals[terminal_id].input_sender = None
    THEN Err("Terminal input channel not available")
    ELSE IF ~enqueued THEN Err("Failed to send command to terminal")
    ELSE Ok

\* the stdin pump of a live shell is receiving; that of a dead one has ended
\* or ends at its next write
may_enqueue(terminal_id, enqueued) ==
    (/\ terminal_id \in DOMAIN terminals
     /\ terminals[terminal_id].input_sender # None
     /\ terminals[terminal_id].input_sender[1].pid \in children) => enqueued

send_command(terminal_id, command, enqueued) ==
    LET res == send_command_result(terminal_id, enqueued) IN
    /\ may_enqueue(terminal_id, enqueued)
    /\ term_ret' = Returned("send_command", res)
    /\ terminals' =
          IF res.ok
          THEN [terminals EXCEPT
                  ![terminal_id].input_sender[1].queue = Append(@, command),
                  ![terminal_id].session.output_history =
                      limit_history(Append(@, TerminalOutput(now, <<command>>,
                                                             "Input"))),
                  ![terminal_id].session.last_activity = now]
          ELSE terminals
    /\ UNCHANGED <<now, non_term_vars, pumps, creating, children, killing>>

\* the stdout or stderr pump of a live shell reads a line and sends it on the
\* output channel
pump_output(terminal_id, line, output_type) ==
    /\ terminal_id \in DOMAIN terminals
    /\ terminals[terminal_id].output_receiver # None
    /\ terminals[terminal_id].output_receiver[1].pid \in children
    /\ terminals' = [terminals EXCEPT
            ![terminal_id].output_receiver[1].queue =
                Append(@, TerminalOutput(now, <<line>>, output_type))]
    /\ UNCHANGED <<now, non_term_vars, pumps, creating, children, killing,
                   term_ret>>

\* a line the shell prints when it runs `command`
response_line(command) == <<"output of", command>>

\* the stdin pump hands the shell the oldest command sent and the shell prints
\* a line about it, which the stdout or stderr pump sends on the output
\* channel; `more` is whether the shell has more to print about the command
shell_respond(terminal_id, output_type, more) ==
    /\ terminal_id \in DOMAIN terminals
    /\ terminals[terminal_id].input_sender # None
    /\ terminals[terminal_id].output_receiver # None
    /\ terminals[terminal_id].input_sender[1].pid \in children
    /\ terminals[terminal_id].output_receiver[1].pid
            = terminals[terminal_id].input_sender[1].pid
    /\ terminals[terminal_id].input_sender[1].queue # <<>>
    /\ LET command == Head(terminals[terminal_id].input_sender[1].queue) IN
       terminals' = [terminals EXCEPT
            ![terminal_id].input_sender[1].queue = IF more THEN @ ELSE Tail(@),
            ![terminal_id].output_receiver[1].queue =
                Append(@, TerminalOutput(now, response_line(command), output_type))]
    /\ UNCHANGED <<now, non_term_vars, pumps, creating, children, killing,
                   term_ret>>

\* the records get_terminal_output returns: all that try_recv() yields
new_outputs(terminal) ==
    IF terminal.output_receiver = None
    THEN <<>> ELSE terminal.output_receiver[1].queue

\* get_terminal_output leaving what it returns in the channel
get_terminal_output_peeking(terminal_id) ==
    /\ IF terminal_id \notin DOMAIN terminals
       THEN /\ term_ret' = Returned("get_terminal_output",
                                    Err("Terminal not found"))
            /\ UNCHANGED terminals
       ELSE LET terminal == terminals[terminal_id]
                drained == new_outputs(terminal)
            IN
            /\ term_ret' = Returned("get_terminal_output", Ok)
            /\ terminals' = [terminals EXCEPT
                  ![terminal_id].session.last_activity =
                      IF drained # <<>> THEN now ELSE @,
                  ![terminal_id].session.output_history =
                      limit_history(@ \o drained)]
    /\ UNCHANGED <<now, non_term_vars, pumps, creating, children, killing>>

\* get_terminal_output putting what it returns in front of the history
get_terminal_output_prepending(terminal_id) ==
    /\ IF terminal_id \notin DOMAIN terminals
       THEN /\ term_ret' = Returned("get_terminal_output",
                                    Err("Terminal not found"))
            /\ UNCHANGED terminals
       ELSE LET terminal == terminals[terminal_id]
                drained == new_outputs(terminal)
            IN
            /\ term_ret' = Returned("get_terminal_output", Ok)
            /\ terminals' = [terminals EXCEPT
                  ![terminal_id].output_receiver =
                      IF @ = None THEN None ELSE Some(Channel(@[1].pid, <<>>)),
                  ![terminal_id].session.last_activity =
                      IF drained # <<>> THEN now ELSE @,
                  ![terminal_id].session.output_history =
                      limit_history(drained \o @)]
    /\ UNCHANGED <<now, non_term_vars, pumps, creating, children, killing>>

get_terminal_output(terminal_id) ==
    /\ IF terminal_id \notin DOMAIN terminals
       THEN /\ term_ret' = Returned("get_terminal_output",
                                    Err("Terminal not found"))
            /\ UNCHANGED terminals
       ELSE LET terminal == terminals[terminal_id]
                drained == new_outputs(terminal)
            IN
            /\ term_ret' = Returned("get_terminal_output", Ok)
            /\ terminals' = [terminals EXCEPT
                  ![terminal_id].output_receiver =
                      IF @ = None THEN None ELSE Some(Channel(@[1].pid, <<>>)),
                  ![terminal_id].session.last_activity =
                      IF drained # <<>> THEN now ELSE @,
                  ![terminal_id].session.output_history =
                      limit_history(@ \o drained)]
    /\ UNCHANGED <<now, non_term_vars, pumps, creating, children, killing>>

\* close_terminal looking at the process without taking it (as_ref for take)
closed_terminal_process_kept(terminal, timestamp) ==
    [terminal EXCEPT
        !.session.status = "Closed",
        !.session.last_activity = timestamp,
        !.session.output_history =
            Append(@, TerminalOutput(timestamp,
                                     <<"Terminal", terminal.session.id, "closed">>,
                                     "System"))]

closed_terminal(terminal, timestamp) ==
    [terminal EXCEPT
        !.process = None,
        !.session.status = "Closed",
        !.session.last_activity = timestamp,
        !.session.output_history =
            Append(@, TerminalOutput(timestamp,
                                     <<"Terminal", terminal.session.id, "closed">>,
                                     "System"))]

\* close_terminal killing the process before it releases the lock
close_terminal_lock_killing(terminal_id) ==
    /\ IF terminal_id \notin DOMAIN terminals
       THEN /\ term_ret' = Returned("close_terminal", Err("Terminal not found"))
            /\ UNCHANGED <<terminals, children>>
       ELSE /\ terminals' = [terminals EXCEPT
                    ![terminal_id] = closed_terminal(@, now)]
            /\ term_ret' = Returned("close_terminal", Ok)
            /\ children' = children \ handles_of({terminals[terminal_id]})
    /\ UNCHANGED <<now, non_term_vars, pumps, creating, killing>>

\* close_terminal, lines 386-406: under the lock, take the process out of the
\* instance and mark the session Closed; with no process to kill the call
\* returns
close_terminal_lock(terminal_id) ==
    /\ IF terminal_id \notin DOMAIN terminals
       THEN /\ term_ret' = Returned("close_terminal", Err("Terminal not found"))
            /\ UNCHANGED <<terminals, killing>>
       ELSE /\ terminals' = [terminals EXCEPT
                    ![terminal_id] = closed_terminal(@, now)]
            /\ IF terminals[terminal_id].process = None
               THEN /\ term_ret' = Returned("close_terminal", Ok)
                    /\ UNCHANGED killing
               ELSE /\ killing' = killing \cup {terminals[terminal_id].process[1]}
                    /\ UNCHANGED term_ret
    /\ UNCHANGED <<now, non_term_vars, pumps, creating, children>>

\* close_terminal, lines 408-413: kill the process outside the lock, return
close_terminal_kill(pid) ==
    /\ pid \in killing
    /\ killing' = killing \ {pid}
    /\ children' = children \ {pid}
    /\ term_ret' = Returned("close_terminal", Ok)
    /\ UNCHANGED <<now, non_term_vars, pumps, terminals, creating>>

\* the shell exits on its own
child_exit(pid) ==
    /\ pid \in children
    /\ children' = children \ {pid}
    /\ UNCHANGED <<now, non_term_vars, pumps, terminals, creating, killing,
                   term_ret>>

\* whether the task `kind` of the shell `pid` can leave its loop: the stdin
\* task when recv() yields None (every sender is dropped) or when a write of
\* a received text fails (the shell is gone); a reader task when next_line()
\* yields None (the shell is gone) or when its send fails (the receiver is
\* dropped)
pump_may_end(pid, kind) ==
    LET senders == {t \in DOMAIN terminals :
                        IF terminals[t].input_sender = None THEN FALSE
                        ELSE terminals[t].input_sender[1].pid = pid}
        receivers == {t \in DOMAIN terminals :
                        IF terminals[t].output_receiver = None THEN FALSE
                        ELSE terminals[t].output_receiver[1].pid = pid}
    IN
    IF kind = "stdin"
    THEN \/ senders = {}
         \/ /\ pid \notin children
            /\ \E t \in senders : terminals[t].input_sender[1].queue # <<>>
    ELSE \/ pid \notin children
         \/ receivers = {}

\* a pump task ends
pump_end(pid, kind) ==
    /\ [pid |-> pid, kind |-> kind] \in pumps
    /\ pump_may_end(pid, kind)
    /\ pumps' = pumps \ {[pid |-> pid, kind |-> kind]}
    /\ UNCHANGED <<now, non_term_vars, terminals, creating, children, killing,
                   term_ret>>

cleanup_closed_terminals ==
    LET closed == {t \in DOMAIN terminals :
                        terminals[t].session.status = "Closed"}
    IN
    /\ terminals' = remove_keys(terminals, closed)
    /\ children' = children \ handles_of({terminals[t] : t \in closed})
    /\ UNCHANGED <<now, non_term_vars, pumps, creating, killing, term_ret>>

RECURSIVE sum_over(_, _)
sum_over(f, keys) ==
    IF keys = {} THEN 0
    ELSE LET k == CHOOSE x \in keys : TRUE IN f[k] + sum_over(f, keys \ {k})

\* records a session holds: its history and its output channel's buffer
records_of(terminal) == Len(terminal.session.output_history)
                            + Len(new_outputs(terminal))

total_records(registry) ==
    sum_over([t \in DOMAIN registry |-> records_of(registry[t])], DOMAIN registry)

InitTerm ==
    /\ terminals = EmptyMap
    /\ creating = EmptyBag
    /\ children = {}
    /\ killing = {}
    /\ pumps = {}
    /\ term_ret = Returned("none", Ok)

\* =========================================================================
\* WorkspaceManagerService
\* =========================================================================

\* the repositories a call can name, and whether .workhorse/configs/
\* repository.json exists there
is_managed_repository ==
    [repo_path \in {"/src/repo", "/src/other"} |-> repo_path = "/src/repo"]

RepoInputs == DOMAIN is_managed_repository

WorkspaceNames == {"a"}
TagInputs == {"t"}
FieldKeys == {"k"}
FieldValues == {"v"}
ReasonInputs == {None, Some("r")}

WorkspaceIds == 1..MaxWorkspaces

\* format!("ws-{}", &workspace_id[..8])
worktree_name(workspace_id) == <<"ws-", workspace_id>>

\* base_path is None: the parent of the repository, "<repo_name>-<name>"
determine_workspace_path(repo_path, name) == <<"/src", "repo", "-", name>>

\* GitService::is_git_repository on a workspace path: the directory is there
\* and the repository still has a worktree for it
is_git_repository(path) ==
    /\ path \in dirs
    /\ \E n \in DOMAIN worktrees : worktrees[n] = path

\* GitService::create_worktree: repo.worktree() refuses a name or a path that
\* is taken, and can fail for reasons of its own (git_ok)
create_worktree_ok(name, path, git_ok) ==
    git_ok /\ name \notin DOMAIN worktrees /\ path \notin dirs

\* GitService::remove_worktree: find_worktree, then prune
remove_worktree_ok(name, git_ok) == git_ok /\ name \in DOMAIN worktrees

worktrees_after_remove(name, git_ok) ==
    IF remove_worktree_ok(name, git_ok)
    THEN remove_keys(worktrees, {name}) ELSE worktrees

count_status(records, status) ==
    Cardinality({w \in DOMAIN records : records[w].status = status})

\* list_workspaces: every metadata file, newest first; read_dir decides the
\* order of records created in the same instant
list_workspaces(records) ==
    {order \in orders_of(DOMAIN records) :
        \A i, j \in 1..Len(order) :
            i < j => records[order[i]].created_at >= records[order[j]].created_at}

workspace_index_of(records, listed, timestamp) ==
    Some([total_count |-> Len(listed),
          active_count |-> count_status(records, "Active"),
          archived_count |-> count_status(records, "Archived"),
          broken_count |-> count_status(records, "Broken"),
          last_updated |-> timestamp,
          workspace_ids |-> listed])

\* update_workspace_index over the records as they will be saved
update_workspace_index(records) ==
    \E listed \in list_workspaces(records) :
        workspace_index' = workspace_index_of(records, listed, now)

\* create_workspace going on when create_worktree has failed
create_workspace_result_ignoring_git(repo_path, name, git_ok) ==
    IF ~is_managed_repository[repo_path]
    THEN Err("repository is not managed")
    ELSE IF determine_workspace_path(repo_path, name) \in dirs
    THEN Err("workspace path already exists")
    ELSE Ok

\* what create_workspace returns
create_workspace_result(repo_path, name, git_ok) ==
    IF ~is_managed_repository[repo_path]
    THEN Err("repository is not managed")
    ELSE IF determine_workspace_path(repo_path, name) \in dirs
    THEN Err("workspace path already exists")
    ELSE IF ~create_worktree_ok(worktree_name(issued + 1),
                                determine_workspace_path(repo_path, name), git_ok)
    THEN Err("create_worktree failed")
    ELSE Ok

new_workspace(workspace_id, repo_path, name, tags, timestamp) ==
    [id |-> workspace_id,
     name |-> name,
     repository_path |-> repo_path,
     workspace_path |-> determine_workspace_path(repo_path, name),
     branch |-> None,
     status |-> "Active",
     created_at |-> timestamp,
     updated_at |-> timestamp,
     last_accessed_at |-> Some(timestamp),
     archived_at |-> None,
     description |-> None,
     tags |-> tags,
     custom_fields |-> EmptyMap]

create_workspace(repo_path, name, tags, git_ok) ==
    LET res == create_workspace_result(repo_path, name, git_ok)
        workspace_id == issued + 1
        path == determine_workspace_path(repo_path, name)
        saved == insert(workspaces, workspace_id,
                        new_workspace(workspace_id, repo_path, name, tags, now))
    IN
    /\ ws_ret' = Returned("create_workspace", res)
    /\ IF res.ok
       THEN /\ issued' = workspace_id
            /\ worktrees' = insert(worktrees, worktree_name(workspace_id), path)
            /\ dirs' = dirs \cup {path}
            /\ workspaces' = saved
            /\ update_workspace_index(saved)
       ELSE UNCHANGED <<issued, worktrees, dirs, workspaces, workspace_index>>
    /\ UNCHANGED <<now, non_ws_vars, ws_loaded>>

\* archive_workspace without its look at the status
archive_workspace_result_any_status(workspace_id) ==
    IF workspace_id \notin DOMAIN workspaces THEN Err("metadata file not found")
    ELSE Ok

\* what archive_workspace returns
archive_workspace_result(workspace_id) ==
    IF workspace_id \notin DOMAIN workspaces THEN Err("metadata file not found")
    ELSE IF workspaces[workspace_id].status = "Archived"
    THEN Err("workspace is already archived")
    ELSE Ok

archived_workspace(metadata, archive_reason, timestamp) ==
    [metadata EXCEPT
        !.status = "Archived",
        !.archived_at = Some(timestamp),
        !.updated_at = timestamp,
        !.custom_fields = IF archive_reason = None THEN @
                          ELSE insert(@, "archive_reason", archive_reason[1])]

archive_workspace(workspace_id, keep_files, archive_reason, git_ok) ==
    LET res == archive_workspace_result(workspace_id) IN
    /\ ws_ret' = Returned("archive_workspace", res)
    /\ IF res.ok
       THEN LET metadata == workspaces[workspace_id]
                saved == [workspaces EXCEPT ![workspace_id] =
                            archived_workspace(metadata, archive_reason, now)]
            IN
            /\ IF ~keep_files /\ metadata.workspace_path \in dirs
               THEN /\ worktrees' = worktrees_after_remove(
                                        worktree_name(metadata.id), git_ok)
                    /\ dirs' = dirs \ {metadata.workspace_path}
               ELSE UNCHANGED <<worktrees, dirs>>
            /\ workspaces' = saved
            /\ update_workspace_index(saved)
       ELSE UNCHANGED <<worktrees, dirs, workspaces, workspace_index>>
    /\ UNCHANGED <<now, non_ws_vars, ws_loaded, issued>>

\* what restore_workspace returns
restore_workspace_result(workspace_id, git_ok) ==
    IF workspace_id \notin DOMAIN workspaces THEN Err("metadata file not found")
    ELSE IF workspaces[workspace_id].status # "Archived"
    THEN Err("only an archived workspace can be restored")
    ELSE IF /\ workspaces[workspace_id].workspace_path \notin dirs
            /\ ~create_worktree_ok(worktree_name(workspace_id),
                                   workspaces[workspace_id].workspace_path, git_ok)
    THEN Err("create_worktree failed")
    ELSE Ok

\* restore_workspace leaving archived_at as it finds it
restored_workspace_still_dated(metadata, timestamp) ==
    [metadata EXCEPT
        !.status = "Active",
        !.updated_at = timestamp,
        !.last_accessed_at = Some(timestamp),
        !.custom_fields = remove_keys(@, {"archive_reason"})]

restored_workspace(metadata, timestamp) ==
    [metadata EXCEPT
        !.status = "Active",
        !.archived_at = None,
        !.updated_at = timestamp,
        !.last_accessed_at = Some(timestamp),
        !.custom_fields = remove_keys(@, {"archive_reason"})]

restore_workspace(workspace_id, git_ok) ==
    LET res == restore_workspace_result(workspace_id, git_ok) IN
    /\ ws_ret' = Returned("restore_workspace", res)
    /\ IF res.ok
       THEN LET metadata == workspaces[workspace_id]
                saved == [workspaces EXCEPT ![workspace_id] =
                            restored_workspace(metadata, now)]
            IN
            /\ IF metadata.workspace_path \notin dirs
               THEN /\ worktrees' = insert(worktrees, worktree_name(metadata.id),
                                           metadata.workspace_path)
                    /\ dirs' = dirs \cup {metadata.workspace_path}
               ELSE UNCHANGED <<worktrees, dirs>>
            /\ workspaces' = saved
            /\ update_workspace_index(saved)
       ELSE UNCHANGED <<worktrees, dirs, workspaces, workspace_index>>
    /\ UNCHANGED <<now, non_ws_vars, ws_loaded, issued>>

\* delete_workspace giving up when the worktree cannot be removed
delete_workspace_strict(workspace_id, git_ok) ==
    /\ IF \/ workspace_id \notin DOMAIN workspaces
          \/ ~remove_worktree_ok(worktree_name(workspace_id), git_ok)
       THEN /\ ws_ret' = Returned("delete_workspace",
                                  Err("remove_worktree failed"))
            /\ UNCHANGED <<worktrees, dirs, workspaces, workspace_index>>
       ELSE LET saved == remove_keys(workspaces, {workspace_id}) IN
            /\ ws_ret' = Returned("delete_workspace", Ok)
            /\ worktrees' = remove_keys(worktrees,
                                        {worktree_name(workspace_id)})
            /\ dirs' = dirs \ {workspaces[workspace_id].workspace_path}
            /\ workspaces' = saved
            /\ update_workspace_index(saved)
    /\ UNCHANGED <<now, non_ws_vars, ws_loaded, issued>>

delete_workspace(workspace_id, git_ok) ==
    /\ IF workspace_id \notin DOMAIN workspaces
       THEN /\ ws_ret' = Returned("delete_workspace",
                                  Err("metadata file not found"))
            /\ UNCHANGED <<worktrees, dirs, workspaces, workspace_index>>
       ELSE LET saved == remove_keys(workspaces, {workspace_id}) IN
            /\ ws_ret' = Returned("delete_workspace", Ok)
            /\ worktrees' = worktrees_after_remove(worktree_name(workspace_id),
                                                   git_ok)
            /\ dirs' = dirs \ {workspaces[workspace_id].workspace_path}
            /\ workspaces' = saved
            /\ update_workspace_index(saved)
    /\ UNCHANGED <<now, non_ws_vars, ws_loaded, issued>>

\* update_workspace_status with no regard for Archived
reconciled_status_of_probe(metadata) ==
    IF metadata.workspace_path \notin dirs
            \/ ~is_git_repository(metadata.workspace_path)
    THEN "Broken"
    ELSE "Active"

\* the status update_workspace_status settles on
reconciled_status(metadata) ==
    IF metadata.status = "Archived" THEN "Archived"
    ELSE IF metadata.workspace_path \notin dirs
            \/ ~is_git_repository(metadata.workspace_path)
    THEN "Broken"
    ELSE "Active"

\* load, change, stamp updated_at, save: the body that update_workspace_status,
\* access_workspace and update_workspace_metadata share; `changed` is the
\* loaded record after the change
save_changed(op, workspace_id, changed) ==
    /\ IF workspace_id \notin DOMAIN workspaces
       THEN /\ ws_ret' = Returned(op, Err("metadata file not found"))
            /\ UNCHANGED workspaces
       ELSE /\ ws_ret' = Returned(op, Ok)
            /\ workspaces' = [workspaces EXCEPT ![workspace_id] =
                    [changed EXCEPT !.updated_at = now]]
    /\ UNCHANGED <<now, non_ws_vars, ws_loaded, workspace_index, dirs, worktrees, issued>>

update_workspace_status(workspace_id) ==
    save_changed("update_workspace_status", workspace_id,
        [workspaces[workspace_id] EXCEPT
            !.status = reconciled_status(workspaces[workspace_id])])

access_workspace(workspace_id) ==
    save_changed("access_workspace", workspace_id,
        [workspaces[workspace_id] EXCEPT !.last_accessed_at = Some(now)])

\* The same body when other calls run between its load and its save.
\* What `op` makes of the record it has loaded:
changed_by(op, metadata) ==
    IF op = "access_workspace"
    THEN [metadata EXCEPT !.last_accessed_at = Some(now)]
    ELSE [metadata EXCEPT !.status = reconciled_status(metadata)]

\* load_workspace_metadata, the first statement of the call
load_workspace_metadata(op, workspace_id) ==
    /\ IF workspace_id \notin DOMAIN workspaces
       THEN /\ ws_ret' = Returned(op, Err("metadata file not found"))
            /\ UNCHANGED ws_loaded
       ELSE /\ ws_loaded' = ws_loaded (+) SetToBag({
                    [op |-> op, metadata |-> workspaces[workspace_id]] })
            /\ UNCHANGED ws_ret
    /\ UNCHANGED <<now, non_ws_vars, workspaces, workspace_index, dirs,
                   worktrees, issued>>

\* the change, the stamp and save_workspace_metadata, which writes the whole
\* record over the file
save_workspace_metadata(call) ==
    /\ ws_loaded' = ws_loaded (-) SetToBag({call})
    /\ workspaces' = insert(workspaces, call.metadata.id,
            [changed_by(call.op, call.metadata) EXCEPT !.updated_at = now])
    /\ ws_ret' = Returned(call.op, Ok)
    /\ UNCHANGED <<now, non_ws_vars, workspace_index, dirs, worktrees, issued>>

\* `updated` is what update_fn makes of the loaded record
update_workspace_metadata(op, workspace_id, updated) ==
    save_changed(op, workspace_id, updated)

seq_contains(seq, x) == \E i \in 1..Len(seq) : seq[i] = x

add_workspace_tag(workspace_id, tag) ==
    update_workspace_metadata("add_workspace_tag", workspace_id,
        [workspaces[workspace_id] EXCEPT
            !.tags = IF seq_contains(@, tag) THEN @ ELSE Append(@, tag)])

\* retain keeping nothing
retain_none(tags, tag) == <<>>

\* tags.retain(|t| t != tag)
retain_others(tags, tag) ==
    LET keep(t) == t # tag IN SelectSeq(tags, keep)

remove_workspace_tag(workspace_id, tag) ==
    update_workspace_metadata("remove_workspace_tag", workspace_id,
        [workspaces[workspace_id] EXCEPT !.tags = retain_others(@, tag)])

set_custom_field(workspace_id, key, value) ==
    update_workspace_metadata("set_custom_field", workspace_id,
        [workspaces[workspace_id] EXCEPT !.custom_fields = insert(@, key, value)])

remove_custom_field(workspace_id, key) ==
    update_workspace_metadata("remove_custom_field", workspace_id,
        [workspaces[workspace_id] EXCEPT
            !.custom_fields = remove_keys(@, {key})])

\* every workspace that is not Active
not_active_workspaces(records) ==
    {w \in DOMAIN records : records[w].status # "Active"}

\* the workspaces cleanup_broken_workspaces deletes
broken_workspaces(records) ==
    {w \in DOMAIN records : records[w].status = "Broken"}

\* what cleanup_broken_workspaces returns when list_workspaces gave `listed`:
\* delete_workspace succeeds on every record that list_workspaces has loaded
cleaned_ids(records, listed) ==
    LET cleaned(w) == w \in broken_workspaces(records)
    IN  SelectSeq(listed, cleaned)

\* cleanup_broken_workspaces: delete_workspace on each Broken workspace; git
\* fails to remove the worktrees of `git_fails`. The index is rewritten by
\* each delete_workspace, so it is left alone when nothing is Broken.
cleanup_broken_workspaces(git_fails) ==
    LET cleaned == broken_workspaces(workspaces)
        saved == remove_keys(workspaces, cleaned)
    IN
    /\ ws_ret' = Returned("cleanup_broken_workspaces", Ok)
    /\ worktrees' = remove_keys(worktrees,
            {worktree_name(w) : w \in cleaned \ git_fails})
    /\ dirs' = dirs \ {workspaces[w].workspace_path : w \in cleaned}
    /\ workspaces' = saved
    /\ IF cleaned = {}
       THEN UNCHANGED workspace_index
       ELSE update_workspace_index(saved)
    /\ UNCHANGED <<now, non_ws_vars, ws_loaded, issued>>

\* a workspace directory is removed behind the service's back
remove_directory(path) ==
    /\ path \in dirs
    /\ dirs' = dirs \ {path}
    /\ UNCHANGED <<now, non_ws_vars, ws_loaded, workspaces, workspace_index, worktrees,
                   issued, ws_ret>>

InitWs ==
    /\ workspaces = EmptyMap
    /\ workspace_index = None
    /\ dirs = {}
    /\ worktrees = EmptyMap
    /\ issued = 0
    /\ ws_loaded = EmptyBag
    /\ ws_ret = Returned("none", Ok)

Init ==
    /\ now = 0
    /\ InitExec
    /\ InitTerm
    /\ InitWs

\* The script engine within one millisecond, a few execute_script calls and
\* every input create_execution can be given.
NextExec ==
    \/ \E c \in ScriptInputs, wd \in WorkingDirs, env \in EnvInputs :
            create_execution(c, wd, env)
    \/ \E id \in ExecIds : execute_script_load(id) /\ calls_started' <= MaxCalls
    \/ \E call \in BagToSet(calls) : execute_script_commit_running(call)
    \/ \E call \in BagToSet(calls), o \in RunOutcomes :
            execute_script_finish(call, o)
    \/ \E id \in ExecIds : cancel_execution(id)
    \/ \E k \in KeepCounts : cleanup_completed_executions(k)

SpecExec == Init /\ [][NextExec]_vars

\* The threads that call into one ScriptExecutor, lock by lock.
SpecExecLocks == Init /\ [][NextExecLocks]_vars

\* The script engine within one millisecond, with enough execute_script calls
\* to reach max_concurrent_executions and pass it; every create_execution is
\* given a valid script and directory.
NextExecCap ==
    \/ \E c \in ScriptInputs, wd \in WorkingDirs, env \in EnvInputs :
            /\ validated[c].ok /\ prepare_environment(wd).ok
            /\ create_execution(c, wd, env)
    \/ \E id \in ExecIds :
            /\ execute_script_load(id)
            /\ calls_started' <= max_concurrent_executions + MaxExtraCalls
    \/ \E call \in BagToSet(calls) : execute_script_commit_running(call)
    \/ \E call \in BagToSet(calls), o \in RunOutcomes :
            execute_script_finish(call, o)
    \/ \E id \in ExecIds : cancel_execution(id)

SpecExecCap == Init /\ [][NextExecCap]_vars

\* The script engine over several milliseconds, so that records end at
\* different times; every create_execution is given the same valid script and
\* every child runs to its exit.
NextExecTime ==
    \/ Tick(MaxTime)
    \/ \E wd \in ValidDirs, env \in EnvInputs :
            create_execution([text |-> echo_hi, pad |-> 0], wd, env)
    \/ \E id \in ExecIds : execute_script_load(id) /\ calls_started' <= MaxTimedCalls
    \/ \E call \in BagToSet(calls) : execute_script_commit_running(call)
    \/ \E call \in BagToSet(calls), o \in {"exit0", "exit1"} :
            execute_script_finish(call, o)
    \/ \E id \in ExecIds : cancel_execution(id)
    \/ \E k \in KeepCounts : cleanup_completed_executions(k)

SpecExecTime == Init /\ [][NextExecTime]_vars

\* The terminal manager with short histories.
NextTerm ==
    \/ Tick(MaxTime)
    \/ \E n \in NameInputs, wd \in WorkingDirs, env \in EnvInputs :
            /\ create_terminal_check(n, wd, env)
            /\ BagCardinality(creating') <= MaxCreating
    \/ \E frame \in BagToSet(creating) : create_terminal_insert(frame)
    \/ \E id \in TermIds, spawned \in BOOLEAN :
            /\ start_terminal(id, spawned)
            /\ total_records(terminals') <= MaxRecords
    \/ \E id \in TermIds, c \in CommandInputs, enqueued \in BOOLEAN :
            /\ send_command(id, c, enqueued)
            /\ total_records(terminals') <= MaxRecords
    \/ \E id \in TermIds, l \in OutputLines, ty \in {"Stdout", "Stderr"} :
            /\ pump_output(id, l, ty)
            /\ total_records(terminals') <= MaxRecords
    \/ \E id \in TermIds : get_terminal_output(id)
    \/ \E id \in TermIds :
            /\ close_terminal_lock(id)
            /\ total_records(terminals') <= MaxRecords
    \/ \E pid \in Pids : close_terminal_kill(pid)
    \/ \E pid \in Pids : child_exit(pid)
    \/ cleanup_closed_terminals

SpecTerm == Init /\ [][NextTerm]_vars

\* create_terminal alone, over enough milliseconds to name more sessions than
\* max_terminals.
NextTermCap ==
    \/ Tick(max_terminals)
    \/ \E n \in NameInputs, wd \in ValidDirs, env \in EnvInputs :
            /\ create_terminal_check(n, wd, env)
            /\ BagCardinality(creating') <= MaxCreating
    \/ \E frame \in BagToSet(creating) : create_terminal_insert(frame)

SpecTermCap == Init /\ [][NextTermCap]_vars

\* create_terminal over enough milliseconds to fill the registry, then
\* close_terminal on one of its sessions and cleanup_closed_terminals.
NextTermCleanup ==
    \/ NextTermCap
    \/ \E id \in DOMAIN terminals :
            /\ Cardinality(DOMAIN terminals) >= max_terminals
            /\ \A t \in DOMAIN terminals : terminals[t].session.status # "Closed"
            /\ close_terminal_lock(id)
    \/ cleanup_closed_terminals

SpecTermCleanup == Init /\ [][NextTermCleanup]_vars

\* One session created, started and closed, any number of times, within one
\* millisecond.
NextTermClose ==
    \/ \E n \in NameInputs, wd \in ValidDirs, env \in EnvInputs :
            /\ create_terminal_check(n, wd, env)
            /\ BagCardinality(creating') <= MaxCreating
    \/ \E frame \in BagToSet(creating) : create_terminal_insert(frame)
    \/ \E id \in TermIds, spawned \in BOOLEAN :
            /\ start_terminal(id, spawned)
            /\ total_records(terminals') <= MaxRecords
    \/ \E id \in TermIds :
            /\ close_terminal_lock(id)
            /\ total_records(terminals') <= MaxRecords
    \/ \E pid \in Pids : close_terminal_kill(pid)
    \/ \E pid \in Pids : child_exit(pid)

SpecTermClose == Init /\ [][NextTermClose]_vars

\* One close at a time, with the clock moving and other calls made only
\* while the close waits for its child: sessions are created, started and
\* read within the wait.
NextTermWait ==
    \/ /\ killing # {}
       /\ Tick(MaxTime)
    \/ \E n \in NameInputs, wd \in ValidDirs, env \in EnvInputs :
            /\ create_terminal_check(n, wd, env)
            /\ creating = EmptyBag
    \/ \E frame \in BagToSet(creating) : create_terminal_insert(frame)
    \/ \E id \in TermIds :
            /\ start_terminal(id, TRUE)
            /\ total_records(terminals') <= MaxRecords
    \/ \E id \in TermIds :
            /\ killing # {}
            /\ get_terminal_output(id)
    \/ \E id \in TermIds :
            /\ killing = {}
            /\ close_terminal_lock(id)
            /\ total_records(terminals') <= MaxRecords
    \/ \E pid \in Pids : close_terminal_kill(pid)

SpecTermWait == Init /\ [][NextTermWait]_vars

\* One session created, started and closed, its shell killed or exiting on
\* its own, and the pump tasks ending when they can.
NextTermPumps ==
    \/ \E n \in NameInputs, wd \in ValidDirs, env \in EnvInputs :
            /\ create_terminal_check(n, wd, env)
            /\ creating = EmptyBag
    \/ \E frame \in BagToSet(creating) : create_terminal_insert(frame)
    \/ \E id \in TermIds :
            /\ start_terminal(id, TRUE)
            /\ total_records(terminals') <= MaxRecords
    \/ \E id \in TermIds :
            /\ close_terminal_lock(id)
            /\ total_records(terminals') <= MaxRecords
    \/ \E pid \in Pids : close_terminal_kill(pid)
    \/ \E pid \in Pids : child_exit(pid)
    \/ \E pid \in Pids, kind \in PumpKinds : pump_end(pid, kind)

SpecTermPumps == Init /\ [][NextTermPumps]_vars

\* the commands of a run in which each command is sent once
ReplyCommands == {"ls", "pwd"}

\* `command` has not been sent to the session
never_sent(terminal_id, command) ==
    terminal_id \in DOMAIN terminals =>
        \A i \in DOMAIN terminals[terminal_id].session.output_history :
            LET record == terminals[terminal_id].session.output_history[i] IN
            record.output_type = "Input" => record.content # <<command>>

\* One session within one millisecond: created, started, sent each command at
\* most once, its shell answering and printing on its own, its output read.
NextTermOutput ==
    \/ \E n \in NameInputs, wd \in ValidDirs, env \in EnvInputs :
            /\ create_terminal_check(n, wd, env)
            /\ creating = EmptyBag
            /\ terminals = EmptyMap
    \/ \E frame \in BagToSet(creating) : create_terminal_insert(frame)
    \/ \E id \in TermIds, spawned \in BOOLEAN :
            /\ start_terminal(id, spawned)
            /\ total_records(terminals') <= MaxRecords + 1
    \/ \E id \in TermIds, c \in ReplyCommands, enqueued \in BOOLEAN :
            /\ never_sent(id, c)
            /\ send_command(id, c, enqueued)
            /\ total_records(terminals') <= MaxRecords + 1
    \/ \E id \in TermIds, ty \in {"Stdout", "Stderr"}, more \in BOOLEAN :
            /\ shell_respond(id, ty, more)
            /\ total_records(terminals') <= MaxRecords + 1
    \/ \E id \in TermIds, l \in OutputLines, ty \in {"Stdout", "Stderr"} :
            /\ pump_output(id, l, ty)
            /\ total_records(terminals') <= MaxRecords + 1
    \/ \E id \in TermIds : get_terminal_output(id)
    \/ \E pid \in Pids : child_exit(pid)

SpecTermOutput == Init /\ [][NextTermOutput]_vars

\* One session whose history has grown to max_history_size: created, started
\* and sent max_history_size - 1 commands.
full_history ==
    [i \in 1..max_history_size |->
        IF i = 1
        THEN TerminalOutput(0, <<"Terminal", generate_terminal_id(0), "started">>,
                            "System")
        ELSE TerminalOutput(0, <<"ls">>, "Input")]

InitHist ==
    /\ now = 0
    /\ InitExec
    /\ InitWs
    /\ terminals = insert(EmptyMap, generate_terminal_id(0),
            [started_terminal(
                 new_terminal(generate_terminal_id(0),
                              [name |-> None, working_directory |-> "/repo-ws",
                               environment |-> None], 0), 1, 0)
             EXCEPT !.session.output_history = full_history])
    /\ creating = EmptyBag
    /\ children = {1}
    /\ killing = {}
    /\ pumps = spawned_pumps(1)
    /\ term_ret = Returned("send_command", Ok)

\* the session has max_history_size records or more
at_limit(terminal_id) ==
    /\ terminal_id \in DOMAIN terminals
    /\ records_of(terminals[terminal_id]) >= max_history_size

NextHist ==
    \/ \E id \in TermIds, spawned \in BOOLEAN :
            /\ at_limit(id)
            /\ start_terminal(id, spawned)
            /\ total_records(terminals') <= max_history_size + MaxRecords
    \/ \E id \in TermIds, c \in CommandInputs, enqueued \in BOOLEAN :
            /\ at_limit(id)
            /\ send_command(id, c, enqueued)
            /\ total_records(terminals') <= max_history_size + MaxRecords
    \/ \E id \in TermIds, l \in OutputLines, ty \in {"Stdout", "Stderr"} :
            /\ at_limit(id)
            /\ pump_output(id, l, ty)
            /\ total_records(terminals') <= max_history_size + MaxRecords
    \/ \E id \in TermIds : get_terminal_output(id)
    \/ \E id \in TermIds :
            /\ at_limit(id)
            /\ close_terminal_lock(id)
            /\ total_records(terminals') <= max_history_size + MaxRecords
    \/ \E pid \in Pids : close_terminal_kill(pid)
    \/ \E pid \in Pids : child_exit(pid)

SpecHist == InitHist /\ [][NextHist]_vars

\* create, archive, restore and delete.
NextWsLifecycle ==
    \/ \E repo \in RepoInputs, name \in WorkspaceNames, git_ok \in BOOLEAN :
            /\ create_workspace(repo, name, <<>>, git_ok)
            /\ issued' <= MaxWorkspaces
    \/ \E id \in WorkspaceIds, keep_files \in BOOLEAN, reason \in ReasonInputs,
          git_ok \in BOOLEAN :
            archive_workspace(id, keep_files, reason, git_ok)
    \/ \E id \in WorkspaceIds, git_ok \in BOOLEAN : restore_workspace(id, git_ok)
    \/ \E id \in WorkspaceIds, git_ok \in BOOLEAN : delete_workspace(id, git_ok)

\* The workspace manager, with directories that can vanish.
NextWs ==
    \/ NextWsLifecycle
    \/ \E id \in WorkspaceIds : update_workspace_status(id)
    \/ \E id \in WorkspaceIds : access_workspace(id)
    \/ \E id \in WorkspaceIds, tag \in TagInputs : add_workspace_tag(id, tag)
    \/ \E id \in WorkspaceIds, tag \in TagInputs : remove_workspace_tag(id, tag)
    \/ \E id \in WorkspaceIds, k \in FieldKeys, v \in FieldValues :
            set_custom_field(id, k, v)
    \/ \E id \in WorkspaceIds, k \in FieldKeys : remove_custom_field(id, k)
    \/ \E path \in dirs : remove_directory(path)

SpecWsLifecycle == Init /\ [][NextWsLifecycle]_vars

\* Workspaces of the managed repository whose directories can vanish and
\* whose status is looked at again; git does what it is asked, and every
\* archive_workspace asks for the files to go.
NextWsStatus ==
    \/ \E name \in WorkspaceNames :
            /\ create_workspace("/src/repo", name, <<>>, TRUE)
            /\ issued' <= MaxWorkspaces
    \/ \E id \in WorkspaceIds : archive_workspace(id, FALSE, Some("r"), TRUE)
    \/ \E id \in WorkspaceIds : restore_workspace(id, TRUE)
    \/ \E id \in WorkspaceIds : update_workspace_status(id)
    \/ \E path \in dirs : remove_directory(path)
    \/ cleanup_broken_workspaces({})

SpecWsStatus == Init /\ [][NextWsStatus]_vars

SpecWs == Init /\ [][NextWs]_vars

\* One workspace archived and restored while access_workspace and
\* update_workspace_status calls on it are between their load and their save.
NextWsRace ==
    \/ \E name \in WorkspaceNames :
            /\ workspaces = EmptyMap
            /\ create_workspace("/src/repo", name, <<>>, TRUE)
            /\ issued' <= MaxWorkspaces
    \/ \E id \in WorkspaceIds, keep_files \in BOOLEAN :
            archive_workspace(id, keep_files, None, TRUE)
    \/ \E id \in WorkspaceIds : restore_workspace(id, TRUE)
    \/ \E id \in WorkspaceIds,
          op \in {"access_workspace", "update_workspace_status"} :
            /\ load_workspace_metadata(op, id)
            /\ BagCardinality(ws_loaded') <= MaxCalls
    \/ \E call \in BagToSet(ws_loaded) : save_workspace_metadata(call)

SpecWsRace == Init /\ [][NextWsRace]_vars

\* the tags of a run that looks at what a call does to the other tags
MetaTags == {"t", "u"}

\* One workspace over several milliseconds: created, tagged, given custom
\* fields, archived, its status looked at again.
NextWsMeta ==
    \/ Tick(MaxTime)
    \/ \E name \in WorkspaceNames :
            /\ workspaces = EmptyMap
            /\ create_workspace("/src/repo", name, <<>>, TRUE)
            /\ issued' <= MaxWorkspaces
    \/ \E id \in WorkspaceIds : archive_workspace(id, TRUE, None, TRUE)
    \/ \E id \in WorkspaceIds : restore_workspace(id, TRUE)
    \/ \E id \in WorkspaceIds : update_workspace_status(id)
    \/ \E id \in WorkspaceIds : access_workspace(id)
    \/ \E id \in WorkspaceIds, tag \in MetaTags : add_workspace_tag(id, tag)
    \/ \E id \in WorkspaceIds, tag \in MetaTags : remove_workspace_tag(id, tag)
    \/ \E id \in WorkspaceIds, k \in FieldKeys, v \in FieldValues :
            set_custom_field(id, k, v)
    \/ \E id \in WorkspaceIds, k \in FieldKeys : remove_custom_field(id, k)

SpecWsMeta == Init /\ [][NextWsMeta]_vars

\* =========================================================================
\* Properties of the script engine
\* =========================================================================

RunningIds == {id \in DOMAIN executions : executions[id].status = "Running"}

\* C1: neither the number of executions in status Running nor the running
\* counter ever exceeds max_concurrent_executions.
C1_RunningWithinCap ==
    /\ Cardinality(RunningIds) <= max_concurrent_executions
    /\ running_count <= max_concurrent_executions

ExecuteOrCancelStep ==
    \/ \E id \in ExecIds : execute_script_load(id)
    \/ \E call \in BagToSet(calls) : execute_script_commit_running(call)
    \/ \E call \in BagToSet(calls), o \in RunOutcomes :
            execute_script_finish(call, o)
    \/ \E id \in ExecIds : cancel_execution(id)

\* C2: once an execution is Completed, Failed or Cancelled, no step of
\* execute_script or cancel_execution changes its status.
C2_TerminalStatesFinal ==
    [][ExecuteOrCancelStep =>
            \A id \in DOMAIN executions :
                executions[id].status \in TerminalStates =>
                    /\ id \in DOMAIN executions'
                    /\ executions'[id].status = executions[id].status]_vars

ValidScripts == {c \in ScriptInputs :
                    /\ ~ \E p \in DOMAIN dangerous_patterns :
                            contains(c.text, dangerous_patterns[p])
                    /\ script_len(c) <= max_script_len}

\* C9 as stated: with max_concurrent_executions executions running,
\* create_execution of a valid script in a valid directory returns an id and
\* stores the record as Pending.
C9_AcceptedAtCap ==
    [][\A c \in ValidScripts, wd \in ValidDirs, env \in EnvInputs :
            (running_count >= max_concurrent_executions
                /\ create_execution(c, wd, env))
            => /\ exec_ret'.ok
               /\ generate_execution_id(now) \in DOMAIN executions'
               /\ executions'[generate_execution_id(now)].status = "Pending"]_vars

\* C9 amended: create_execution of a valid script in a valid directory is
\* rejected, storing nothing, when the running counter has reached
\* max_concurrent_executions; below it the call returns the id of a record
\* stored as Pending.
C9_RejectedAtCap ==
    [][\A c \in ValidScripts, wd \in ValidDirs, env \in EnvInputs :
            create_execution(c, wd, env) =>
                IF running_count >= max_concurrent_executions
                THEN /\ exec_ret' = [op |-> "create_execution", ok |-> FALSE]
                     /\ UNCHANGED <<executions, running_count, script_files,
                                    calls>>
                ELSE /\ exec_ret' = [op |-> "create_execution", ok |-> TRUE]
                     /\ generate_execution_id(now) \in DOMAIN executions'
                     /\ executions'[generate_execution_id(now)].status
                            = "Pending"]_vars

\* create_execution has just been refused with the counter at the cap
C9_Witness ==
    /\ running_count >= max_concurrent_executions
    /\ exec_ret = [op |-> "create_execution", ok |-> FALSE]

\* C10: create_execution of a script that holds a deny-listed substring or is
\* longer than the limit, or in a directory that is missing or is no
\* directory, returns an error and leaves the registry, the running counter,
\* the temporary files and the running processes as they were.
C10_InvalidCreateRejected ==
    [][exec_ret'.op = "create_execution" =>
        \A c \in ScriptInputs, wd \in WorkingDirs, env \in EnvInputs :
            ((c \notin ValidScripts \/ wd \notin ValidDirs)
                /\ create_execution(c, wd, env))
            => /\ ~exec_ret'.ok
               /\ UNCHANGED <<executions, running_count, script_files,
                              calls>>]_vars

\* an invalid create_execution has just been refused while the registry holds
\* a running execution
C10_Witness ==
    /\ exec_ret = [op |-> "create_execution", ok |-> FALSE]
    /\ RunningIds # {}
    /\ running_count > 0

\* the outcomes of run_script_internal in which the child process ran and ended

\* C11: execute_script on a Pending execution stores the record as Running
\* with start_time stamped; when the child process has ended it stores
\* end_time, Completed for a successful exit and Failed otherwise, and the
\* exit code, stdout and stderr that it returns in its result.
C11_ExecuteStoresResult ==
    [][/\ \A id \in ExecIds :
            (/\ id \in DOMAIN executions
             /\ executions[id].status = "Pending"
             /\ execute_script_load(id))
            => \E call \in BagToSet(calls') :
                    /\ call.execution.id = id
                    /\ call.execution.status = "Running"
                    /\ call.execution.start_time = Some(now)
       /\ \A call \in BagToSet(calls) :
            execute_script_commit_running(call)
            => /\ executions'[call.execution.id].status = "Running"
               /\ executions'[call.execution.id].start_time # None
       /\ \A call \in BagToSet(calls), o \in EndedOutcomes :
            execute_script_finish(call, o)
            => LET stored == executions'[call.execution.id]
                   returned == run_script_internal(o)
               IN
               /\ exec_ret' = [op |-> "execute_script", ok |-> TRUE]
               /\ returned.ok
               /\ stored.end_time = Some(now)
               /\ stored.start_time = call.execution.start_time
               /\ stored.status =
                    IF o = "exit0" THEN "Completed" ELSE "Failed"
               /\ returned.result.success = (o = "exit0")
               /\ stored.exit_code = returned.result.exit_code
               /\ stored.exit_code =
                    CASE o = "exit0" -> Some(0)
                      [] o = "exit1" -> Some(1)
                      [] OTHER -> None
               /\ stored.stdout = returned.result.stdout
               /\ stored.stderr = returned.result.stderr]_vars

\* an execute_script call has just returned the result of a child that exited
\* with a failure, and the record holds it
C11_Witness ==
    /\ exec_ret = [op |-> "execute_script", ok |-> TRUE]
    /\ \E id \in DOMAIN executions :
            /\ executions[id].status = "Failed"
            /\ executions[id].exit_code = Some(1)
            /\ executions[id].stderr = "err"
            /\ executions[id].start_time # None
            /\ executions[id].end_time # None

\* C12: cancel_execution succeeds exactly on an execution that is Pending or
\* Running, which it marks Cancelled with end_time stamped, the rest of the
\* registry untouched; on any other status and on an unknown id it returns an
\* error and leaves the registry as it was.
C12_CancelOnlyPendingOrRunning ==
    [][exec_ret'.op = "cancel_execution" =>
        \A id \in ExecIds :
            cancel_execution(id) =>
                IF id \in DOMAIN executions
                    /\ executions[id].status \in {"Pending", "Running"}
                THEN /\ exec_ret'.ok
                     /\ DOMAIN executions' = DOMAIN executions
                     /\ executions'[id] =
                            [executions[id] EXCEPT !.status = "Cancelled",
                                                   !.end_time = Some(now)]
                     /\ \A other \in DOMAIN executions \ {id} :
                            executions'[other] = executions[other]
                ELSE /\ ~exec_ret'.ok
                     /\ UNCHANGED executions]_vars

\* a cancel_execution has just been refused on a record that an earlier
\* cancel_execution marked Cancelled
C12_Witness ==
    /\ exec_ret = [op |-> "cancel_execution", ok |-> FALSE]
    /\ \E id \in DOMAIN executions :
            /\ executions[id].status = "Cancelled"
            /\ executions[id].end_time # None

TerminalIds == {id \in DOMAIN executions : executions[id].status \in TerminalStates}

\* C13: cleanup_completed_executions(keep_count) leaves every Pending and
\* Running record as it was; of the n records in a terminal state it keeps
\* min(keep_count, n), each of which ended no earlier than any it removes
\* (a missing end_time counting as the oldest), and removes the others.
C13_CleanupKeepsNewest ==
    [][exec_ret'.op = "cleanup_completed_executions" =>
        \A k \in KeepCounts :
            cleanup_completed_executions(k) =>
                LET kept == TerminalIds \cap DOMAIN executions'
                    removed == TerminalIds \ DOMAIN executions'
                    n == Cardinality(TerminalIds)
                IN
                /\ DOMAIN executions' \subseteq DOMAIN executions
                /\ \A id \in DOMAIN executions \ TerminalIds :
                        id \in DOMAIN executions'
                /\ \A id \in DOMAIN executions' : executions'[id] = executions[id]
                /\ Cardinality(kept) = IF k < n THEN k ELSE n
                /\ \A a \in kept, b \in removed :
                        /\ executions[b].end_time # None =>
                                /\ executions[a].end_time # None
                                /\ executions[a].end_time[1] >= executions[b].end_time[1]]_vars

\* cleanup_completed_executions has kept the record that ended last and
\* removed an older one, which an execute_script call still holds
C13_Witness ==
    /\ exec_ret.op = "cleanup_completed_executions"
    /\ \E id \in DOMAIN executions :
            /\ executions[id].status \in TerminalStates
            /\ executions[id].end_time = Some(MaxTime)
    /\ \E call \in BagToSet(calls) : call.execution.id \notin DOMAIN executions

\* -------------------------------------------------------------------------
\* Properties of the terminal manager
\* -------------------------------------------------------------------------

\* C3: the registry never tracks more than max_terminals sessions, however
\* concurrent create_terminal calls interleave.
C3_RegistryWithinCap == Cardinality(DOMAIN terminals) <= max_terminals

\* C5: the history of a session is never longer than max_history_size once
\* the operations that append to it have returned (start_terminal,
\* send_command and get_terminal_output return in the step that appends;
\* close_terminal returns when its kill is done).
C5_HistoryWithinMax ==
    killing = {} =>
        \A t \in DOMAIN terminals :
            Len(terminals[t].session.output_history) <= max_history_size

\* C7: a session that is Inactive or Closed holds no process handle, no input
\* channel and no output channel.
C7_HandlesAbsentUnlessActive ==
    \A t \in DOMAIN terminals :
        terminals[t].session.status \in {"Inactive", "Closed"} =>
            /\ terminals[t].process = None
            /\ terminals[t].input_sender = None
            /\ terminals[t].output_receiver = None

StatusTransitions ==
    {<<"Inactive", "Active">>, <<"Active", "Closed">>, <<"Active", "Error">>}

\* C8: the status of a session that stays in the registry either stays as it
\* is or moves Inactive->Active, Active->Closed or Active->Error.
C8_StatusTransitions ==
    [][ (~ \E frame \in BagToSet(creating) : create_terminal_insert(frame)) =>
            \A t \in DOMAIN terminals \cap DOMAIN terminals' :
                \/ terminals'[t].session.status = terminals[t].session.status
                \/ <<terminals[t].session.status, terminals'[t].session.status>>
                        \in StatusTransitions ]_vars

closing_record(terminal_id, record) ==
    /\ record.output_type = "System"
    /\ record.content = <<"Terminal", terminal_id, "closed">>

\* C14: close_terminal on an existing session, whatever its status and
\* whether or not it was closed just before, returns Ok and leaves the
\* session Closed with no process handle; a second call right after the first
\* finds the session in that state and does the same.
C14_CloseTwiceSucceeds ==
    [][/\ \A id \in DOMAIN terminals :
            close_terminal_lock(id) =>
                /\ terminals'[id].session.status = "Closed"
                /\ terminals'[id].process = None
                /\ \/ term_ret' = [op |-> "close_terminal", ok |-> TRUE]
                   \/ /\ terminals[id].process # None
                      /\ terminals[id].process[1] \in killing'
                /\ LET again == closed_terminal(terminals'[id], now) IN
                   /\ again.session.status = "Closed"
                   /\ again.process = None
       /\ \A pid \in Pids :
            close_terminal_kill(pid) =>
                term_ret' = [op |-> "close_terminal", ok |-> TRUE]]_vars

\* a session that was started has been closed twice in a row: its history
\* ends with two closing records and the second call has returned Ok
C14_Witness ==
    /\ term_ret = [op |-> "close_terminal", ok |-> TRUE]
    /\ killing = {}
    /\ \E id \in DOMAIN terminals :
            LET h == terminals[id].session.output_history IN
            /\ terminals[id].session.status = "Closed"
            /\ terminals[id].process = None
            /\ Len(h) >= 3
            /\ closing_record(id, h[Len(h)])
            /\ closing_record(id, h[Len(h) - 1])
            /\ h[Len(h) - 2].content = <<"Terminal", id, "started">>

\* C15: however get_terminal_output calls on a session interleave with each
\* other and with the pumps, each call returns every record the channel holds
\* when it runs and takes those records, and no others, out of the channel:
\* what one call returned no other call finds, and what a call leaves behind
\* was pushed after it.
C15_OutputReturnedOnce ==
    [][term_ret'.op = "get_terminal_output" =>
        \A id \in DOMAIN terminals :
            get_terminal_output(id) =>
                LET returned == new_outputs(terminals[id]) IN
                /\ term_ret'.ok
                /\ terminals[id].output_receiver # None =>
                        /\ returned = terminals[id].output_receiver[1].queue
                        /\ terminals'[id].output_receiver # None
                        /\ terminals'[id].output_receiver[1].queue = <<>>
                /\ new_outputs(terminals'[id]) = <<>>
                /\ \A other \in DOMAIN terminals \ {id} :
                        terminals'[other] = terminals[other]]_vars

output_records(output_history) ==
    {i \in DOMAIN output_history :
        output_history[i].output_type \in {"Stdout", "Stderr"}}

\* two get_terminal_output calls have each returned a record: the history
\* holds an output record on either side of an Input record, and the channel
\* is empty
C15_Witness ==
    /\ term_ret = [op |-> "get_terminal_output", ok |-> TRUE]
    /\ \E id \in DOMAIN terminals :
            LET h == terminals[id].session.output_history IN
            /\ terminals[id].output_receiver # None
            /\ terminals[id].output_receiver[1].queue = <<>>
            /\ \E i, j, k \in DOMAIN h :
                    /\ i < j /\ j < k
                    /\ i \in output_records(h)
                    /\ h[j].output_type = "Input"
                    /\ k \in output_records(h)

\* C16: get_terminal_output returns the buffered records in channel order and
\* leaves them, in that order, at the end of the history, after the records
\* the history keeps; with nothing buffered it returns the empty list and
\* leaves history and last_activity as they were (looked at while no
\* close_terminal is under way).
C16_OutputAppendedInOrder ==
    [][(killing = {} /\ term_ret'.op = "get_terminal_output") =>
        \A id \in DOMAIN terminals :
            get_terminal_output(id) =>
                LET returned == new_outputs(terminals[id])
                    before == terminals[id].session.output_history
                    after == terminals'[id].session.output_history
                IN
                /\ terminals[id].output_receiver # None =>
                        returned = terminals[id].output_receiver[1].queue
                /\ \E evicted \in 0..Len(before) :
                        after = SubSeq(before, evicted + 1, Len(before)) \o returned
                /\ returned = <<>> =>
                        /\ after = before
                        /\ terminals'[id].session.last_activity
                                = terminals[id].session.last_activity]_vars

is_input(record, command) ==
    record.output_type = "Input" /\ record.content = <<command>>

is_response(record, command) ==
    /\ record.output_type \in {"Stdout", "Stderr"}
    /\ record.content = response_line(command)

\* C17: in the history of a session, the Input record of a command comes
\* before every stdout and stderr record the shell printed in response to
\* that command, however send_command, the pumps and get_terminal_output
\* interleave.
C17_InputBeforeResponse ==
    \A t \in DOMAIN terminals :
        LET h == terminals[t].session.output_history IN
        \A c \in ReplyCommands, i, j \in DOMAIN h :
            (is_input(h[i], c) /\ is_response(h[j], c)) => i < j

\* a history holds the Input record of a command and, after it, two records
\* of the shell's response
C17_Witness ==
    \E t \in DOMAIN terminals :
        LET h == terminals[t].session.output_history IN
        \E c \in ReplyCommands, i, j, k \in DOMAIN h :
            /\ i < j /\ j < k
            /\ is_input(h[i], c)
            /\ is_response(h[j], c)
            /\ is_response(h[k], c)

\* -------------------------------------------------------------------------
\* Properties of the workspace manager
\* -------------------------------------------------------------------------

\* C4: no two metadata records have the same workspace_path.
C4_WorkspacePathUnique ==
    \A a, b \in DOMAIN workspaces :
        a # b => workspaces[a].workspace_path # workspaces[b].workspace_path

MutatingOps ==
    {"create_workspace", "archive_workspace", "restore_workspace",
     "delete_workspace", "update_workspace_status", "access_workspace",
     "add_workspace_tag", "remove_workspace_tag", "set_custom_field",
     "remove_custom_field"}

\* the index carries the counts and the ids of the records as they are now
index_matches_records ==
    /\ workspace_index # None
    /\ workspace_index[1].total_count = Cardinality(DOMAIN workspaces)
    /\ workspace_index[1].active_count = count_status(workspaces, "Active")
    /\ workspace_index[1].archived_count = count_status(workspaces, "Archived")
    /\ workspace_index[1].broken_count = count_status(workspaces, "Broken")
    /\ workspace_index[1].workspace_ids \in list_workspaces(workspaces)

\* C6: once a mutating workspace operation has returned successfully, the
\* persisted index equals the aggregate recomputed from the records.
C6_IndexMatchesRecords ==
    (ws_ret.ok /\ ws_ret.op \in MutatingOps) => index_matches_records

\* what the claims call the filesystem and version-control state of a workspace
ws_surroundings == <<worktrees, dirs, workspace_index>>

\* C18: archive_workspace on a workspace that is Archived, and
\* restore_workspace on a workspace that is not, return an error and leave the
\* records, the working trees, the directories and the index as they were.
C18_RefusedLifecycleCallChangesNothing ==
    [][ws_ret'.op \in {"archive_workspace", "restore_workspace"} =>
        \A id \in DOMAIN workspaces :
            /\ workspaces[id].status = "Archived" =>
                    \A keep_files \in BOOLEAN, reason \in ReasonInputs,
                       git_ok \in BOOLEAN :
                        archive_workspace(id, keep_files, reason, git_ok) =>
                            /\ ~ws_ret'.ok
                            /\ UNCHANGED <<workspaces, ws_surroundings>>
            /\ workspaces[id].status # "Archived" =>
                    \A git_ok \in BOOLEAN :
                        restore_workspace(id, git_ok) =>
                            /\ ~ws_ret'.ok
                            /\ UNCHANGED <<workspaces, ws_surroundings>>]_vars

\* restore_workspace has just been refused where every id names a workspace
\* and none is Archived, one of them Broken
C18_Witness ==
    /\ ws_ret = [op |-> "restore_workspace", ok |-> FALSE]
    /\ DOMAIN workspaces = WorkspaceIds
    /\ \A id \in DOMAIN workspaces : workspaces[id].status # "Archived"
    /\ \E id \in DOMAIN workspaces : workspaces[id].status = "Broken"

\* C19: archive_workspace with keep_files = false on a workspace that is not
\* Archived returns Ok and leaves its directory absent, its status Archived
\* and archived_at set; restore_workspace on a workspace so archived returns
\* Ok and leaves the directory present, the status Active, archived_at
\* cleared and the archive_reason custom field removed.
C19_ArchiveThenRestore ==
    [][ws_ret'.op \in {"archive_workspace", "restore_workspace"} =>
        \A id \in DOMAIN workspaces :
            /\ (/\ workspaces[id].status # "Archived"
                /\ archive_workspace(id, FALSE, Some("r"), TRUE))
               => /\ ws_ret'.ok
                  /\ workspaces'[id].workspace_path \notin dirs'
                  /\ workspaces'[id].status = "Archived"
                  /\ workspaces'[id].archived_at # None
            /\ (/\ workspaces[id].status = "Archived"
                /\ restore_workspace(id, TRUE))
               => /\ ws_ret'.ok
                  /\ workspaces'[id].workspace_path \in dirs'
                  /\ workspaces'[id].status = "Active"
                  /\ workspaces'[id].archived_at = None
                  /\ "archive_reason" \notin DOMAIN workspaces'[id].custom_fields]_vars

C21_ArchivedRecordUntouched ==
    [][ws_ret'.op = "update_workspace_status" =>
        \A id \in DOMAIN workspaces :
            (workspaces[id].status = "Archived" /\ update_workspace_status(id))
                => workspaces'[id] = workspaces[id]]_vars

Range(seq) == {seq[i] : i \in DOMAIN seq}

\* what remove_workspace_tag and remove_custom_field do is what retain and
\* HashMap::remove make of the record
removals_as_defined ==
    /\ \A id \in DOMAIN workspaces, tag \in MetaTags :
            remove_workspace_tag(id, tag) =>
                workspaces'[id].tags = retain_others(workspaces[id].tags, tag)
    /\ \A id \in DOMAIN workspaces, k \in FieldKeys :
            remove_custom_field(id, k) =>
                workspaces'[id].custom_fields
                    = remove_keys(workspaces[id].custom_fields, {k})

\* C22 as stated: whatever the tags and custom fields of a workspace,
\* add_workspace_tag followed by remove_workspace_tag of the same tag gives
\* back the tag set, and set_custom_field followed by remove_custom_field of
\* the same key gives back the mapping.
C22_RoundTripAlways ==
    [][/\ removals_as_defined
       /\ \A id \in DOMAIN workspaces, tag \in MetaTags :
            add_workspace_tag(id, tag) =>
                Range(retain_others(workspaces'[id].tags, tag))
                    = Range(workspaces[id].tags)
       /\ \A id \in DOMAIN workspaces, k \in FieldKeys, v \in FieldValues :
            set_custom_field(id, k, v) =>
                remove_keys(workspaces'[id].custom_fields, {k})
                    = workspaces[id].custom_fields]_vars

\* C22: for a workspace that does not carry the tag, add_workspace_tag
\* followed by remove_workspace_tag of that tag gives back the tags it had, in
\* their order; for a workspace with no custom field under the key,
\* set_custom_field followed by remove_custom_field of that key gives back
\* the mapping it had.
C22_RoundTripWhenAbsent ==
    [][/\ removals_as_defined
       /\ \A id \in DOMAIN workspaces, tag \in MetaTags :
            (tag \notin Range(workspaces[id].tags) /\ add_workspace_tag(id, tag))
                => /\ tag \in Range(workspaces'[id].tags)
                   /\ retain_others(workspaces'[id].tags, tag) = workspaces[id].tags
       /\ \A id \in DOMAIN workspaces, k \in FieldKeys, v \in FieldValues :
            (k \notin DOMAIN workspaces[id].custom_fields
                    /\ set_custom_field(id, k, v))
                => /\ k \in DOMAIN workspaces'[id].custom_fields
                   /\ remove_keys(workspaces'[id].custom_fields, {k})
                        = workspaces[id].custom_fields]_vars

\* remove_workspace_tag has returned and left the workspace the one other tag
\* it carried, in a run that also set and removed a custom field
C22_Witness ==
    /\ ws_ret = [op |-> "remove_workspace_tag", ok |-> TRUE]
    /\ \E id \in DOMAIN workspaces :
            /\ workspaces[id].tags = <<"u">>
            /\ workspaces[id].custom_fields = EmptyMap
            /\ workspaces[id].updated_at = MaxTime

\* C23: delete_workspace on a workspace that has a metadata record succeeds,
\* removes the record and leaves no directory at its workspace_path, whether
\* the worktree removal works or fails (the registration already gone, or git
\* refusing) and whether the directory was still there or not.
C23_DeleteAlwaysRemoves ==
    [][ws_ret'.op = "delete_workspace" =>
        \A id \in DOMAIN workspaces, git_ok \in BOOLEAN :
            delete_workspace(id, git_ok) =>
                /\ ws_ret'.ok
                /\ id \notin DOMAIN workspaces'
                /\ workspaces[id].workspace_path \notin dirs'
                /\ id \notin {workspace_index'[1].workspace_ids[i] :
                        i \in 1..Len(workspace_index'[1].workspace_ids)}]_vars

\* C23 witness: a delete has succeeded on a workspace whose worktree could not
\* be removed: the record and the directory are gone, the registration is not.
C23_Witness ==
    /\ ws_ret = [op |-> "delete_workspace", ok |-> TRUE]
    /\ 1 \notin DOMAIN workspaces
    /\ worktree_name(1) \in DOMAIN worktrees
    /\ dirs = {}

\* C24: cleanup_broken_workspaces deletes the metadata record of every
\* workspace whose persisted status is Broken (its directory was removed
\* behind the service's back and update_workspace_status has run) and returns
\* its id; a workspace whose persisted status is Active, Inactive or Archived
\* keeps its record, unchanged, and its id is not returned.
C24_CleanupDeletesBrokenOnly ==
    [][ws_ret'.op = "cleanup_broken_workspaces" =>
        \A id \in DOMAIN workspaces, listed \in list_workspaces(workspaces) :
            IF workspaces[id].status = "Broken"
            THEN /\ id \notin DOMAIN workspaces'
                 /\ id \in Range(cleaned_ids(workspaces, listed))
            ELSE /\ id \in DOMAIN workspaces'
                 /\ workspaces'[id] = workspaces[id]
                 /\ id \notin Range(cleaned_ids(workspaces, listed))]_vars

\* C24 witness: a cleanup has run on two workspaces and deleted one of them;
\* the one it kept is Archived.
C24_Witness ==
    /\ ws_ret = [op |-> "cleanup_broken_workspaces", ok |-> TRUE]
    /\ issued = 2
    /\ \E id \in 1..2 :
            /\ DOMAIN workspaces = {id}
            /\ workspaces[id].status = "Archived"
            /\ workspace_index[1].workspace_ids = <<id>>

\* C25: send_command returns an error and leaves the registry as it was (the
\* session's history, last_activity and input channel with it) whenever the
\* session is missing or not Active or the text cannot be enqueued; when the
\* session is Active and the text is enqueued it returns Ok, exactly one
\* record, the Input record of the command, is added at the end of the
\* history, and the text is the newest on the input channel.
C25_SendCommandFailsCleanly ==
    [][term_ret'.op = "send_command" =>
        \A id \in TermIds, c \in ReplyCommands, enqueued \in BOOLEAN :
            send_command(id, c, enqueued) =>
                IF /\ id \in DOMAIN terminals
                   /\ terminals[id].session.status = "Active"
                   /\ enqueued
                THEN LET before == terminals[id].session.output_history
                         after == terminals'[id].session.output_history
                     IN
                     /\ term_ret'.ok
                     /\ after # <<>>
                     /\ after[Len(after)] = TerminalOutput(now, <<c>>, "Input")
                     /\ \E k \in 0..Len(before) :
                            SubSeq(after, 1, Len(after) - 1)
                                = SubSeq(before, k + 1, Len(before))
                     /\ Len(after) <= Len(before) + 1
                     /\ terminals'[id].input_sender[1].queue =
                            Append(terminals[id].input_sender[1].queue, c)
                ELSE /\ ~term_ret'.ok
                     /\ terminals' = terminals]_vars

\* C25 witness: a send_command has failed on an Active session whose shell is
\* dead, after an earlier one had been recorded.
C25_Witness ==
    /\ term_ret = [op |-> "send_command", ok |-> FALSE]
    /\ \E id \in DOMAIN terminals :
            /\ terminals[id].session.status = "Active"
            /\ terminals[id].process[1] \notin children
            /\ \E i \in DOMAIN terminals[id].session.output_history :
                    terminals[id].session.output_history[i].output_type = "Input"

\* C26: start_terminal on a session that is Active returns an error, spawns
\* nothing, and leaves the session's process handle, channels, status and
\* history (the whole registry, and the set of live children) as they were.
C26_StartActiveRefused ==
    [][term_ret'.op = "start_terminal" =>
        \A id \in DOMAIN terminals, spawned \in BOOLEAN :
            (/\ terminals[id].session.status = "Active"
             /\ start_terminal(id, spawned)) =>
                /\ ~term_ret'.ok
                /\ terminals' = terminals
                /\ children' = children]_vars

\* C26 witness: a start_terminal has been refused while the session is Active
\* with its shell alive and a spawn still possible.
C26_Witness ==
    /\ term_ret = [op |-> "start_terminal", ok |-> FALSE]
    /\ free_pids # {}
    /\ \E id \in DOMAIN terminals :
            /\ terminals[id].session.status = "Active"
            /\ terminals[id].process[1] \in children

\* C27: cleanup_closed_terminals removes every session whose status is Closed
\* and no other; and when the registry was at the cap with at least one
\* session Closed, a create_terminal naming an existing directory is no
\* longer rejected after the cleanup.
C27_CleanupMakesRoom ==
    [][(/\ \E t \in DOMAIN terminals : terminals[t].session.status = "Closed"
        /\ cleanup_closed_terminals) =>
            /\ DOMAIN terminals' =
                    {t \in DOMAIN terminals :
                        terminals[t].session.status # "Closed"}
            /\ \A t \in DOMAIN terminals' : terminals'[t] = terminals[t]
            /\ Cardinality(DOMAIN terminals) >= max_terminals =>
                    Cardinality(DOMAIN terminals') < max_terminals]_vars

\* C28: no operation holds its registry lock while it spawns a child. Each
\* lock-protected region of a handler is one step here, so a step that starts
\* a child (a pid joins `children`) is a step outside every region of the
\* terminal registry's lock: it leaves `terminals` alone.
C28_NoSpawnUnderRegistryLock ==
    [][children' \ children # {} => terminals' = terminals]_vars

\* C29: close_terminal waits for its child outside the registry lock. The
\* region under the lock ends with the child still to be killed (its pid is
\* handed to the wait, no child has gone, the call has not returned), and the
\* step that ends a wait writes nothing to the registry; so calls on other
\* sessions, and reads of the same one, run between the two.
C29_WaitOutsideLock ==
    [][/\ \A id \in DOMAIN terminals :
            (terminals[id].process # None /\ close_terminal_lock(id)) =>
                /\ terminals[id].process[1] \in killing'
                /\ terminals'[id].process = None
                /\ children' = children
                /\ term_ret' = term_ret
       /\ (killing' # killing /\ killing' \subseteq killing) =>
                terminals' = terminals]_vars

\* C29 witness: while the close of the first session still waits for its
\* child, a second session has been created and started, later than the
\* close, and the closed session has been read.
C29_Witness ==
    /\ killing # {}
    /\ killing \subseteq children
    /\ term_ret.op = "get_terminal_output"
    /\ \E a, b \in DOMAIN terminals :
            /\ terminals[a].session.status = "Closed"
            /\ terminals[b].session.status = "Active"
            /\ terminals[b].process[1] \notin killing
            /\ terminals[b].session.created_at
                    > terminals[a].session.last_activity

\* C30: once the shell of a session is gone (close_terminal has killed it and
\* returned, or it has exited on its own), each of its pump tasks that still
\* runs can end by itself: no call is needed to let it leave its loop. Only
\* calls change the registry and only the registry and the shell's death
\* decide whether a pump can end, so a pump that cannot end in such a state
\* runs for as long as no further call is made.
C30_PumpsEndOnceShellGone ==
    \A pump \in pumps :
        (pump.pid \notin children /\ pump.pid \notin killing) =>
            pump_may_end(pump.pid, pump.kind)

\* C31: when execute_script returns, with a result or with an error from the
\* write of the temporary file, from making it executable or from the spawn,
\* the temporary script file of its execution no longer exists.
C31_TempFileGone ==
    [][exec_ret'.op = "execute_script" =>
        \A call \in BagToSet(calls), o \in RunOutcomes :
            execute_script_finish(call, o) =>
                script_file(call.execution) \notin script_files']_vars

\* `after` is `before` with `added` records appended: whole when that makes
\* at most max_history_size records, and less exactly its history_drain oldest
\* records, the others in their order, when it makes more
evicted_in_one_batch(before, added, after) ==
    LET n == Len(before) + added IN
    IF n > max_history_size
    THEN /\ Len(after) = n - history_drain
         /\ SubSeq(after, 1, Len(before) - history_drain)
                = SubSeq(before, history_drain + 1, Len(before))
    ELSE /\ Len(after) = n
         /\ SubSeq(after, 1, Len(before)) = before

\* C32: a send_command or get_terminal_output that brings a history to a
\* length n > max_history_size removes exactly its 100 oldest records in that
\* step, the remaining n - 100 keeping their order; one that brings it to at
\* most max_history_size removes nothing.
C32_EvictionInOneBatch ==
    [][term_ret'.op \in {"send_command", "get_terminal_output"} =>
        \A id \in DOMAIN terminals :
            /\ \A c \in CommandInputs :
                    (send_command(id, c, TRUE) /\ term_ret'.ok) =>
                        evicted_in_one_batch(
                            terminals[id].session.output_history, 1,
                            terminals'[id].session.output_history)
            /\ get_terminal_output(id) =>
                    evicted_in_one_batch(
                        terminals[id].session.output_history,
                        Len(new_outputs(terminals[id])),
                        terminals'[id].session.output_history)]_vars

\* C32 witness: a send_command has just taken a history of max_history_size
\* records to max_history_size + 1 and the eviction has left it 100 shorter.
C32_Witness ==
    /\ term_ret = [op |-> "send_command", ok |-> TRUE]
    /\ \E id \in DOMAIN terminals :
            Len(terminals[id].session.output_history)
                = max_history_size + 1 - history_drain

handle_iff_active ==
    \A t \in DOMAIN terminals :
        terminals[t].process # None <=> terminals[t].session.status = "Active"

\* C34: a session owns a child process handle if and only if it is Active, and
\* no record that owns a handle leaves the registry: after any step such a
\* record is still there, with its handle or with the handle taken for
\* termination by close_terminal.
C34_HandleOutlivesNoRecord ==
    [][/\ handle_iff_active
       /\ \A t \in DOMAIN terminals :
            terminals[t].process # None =>
                /\ t \in DOMAIN terminals'
                /\ \/ terminals'[t].process = terminals[t].process
                   \/ /\ terminals'[t].session.status = "Closed"
                      /\ terminals[t].process[1] \in killing']_vars

\* C35: once a workspace is Archived its persisted status stays Archived
\* until restore_workspace or delete_workspace is called on it, whichever
\* access_workspace and update_workspace_status calls on it run at the same
\* time.
C35_ArchivedUntilRestored ==
    [][\A id \in DOMAIN workspaces :
        (/\ workspaces[id].status = "Archived"
         /\ ws_ret'.op \notin {"restore_workspace", "delete_workspace"}) =>
            /\ id \in DOMAIN workspaces'
            /\ workspaces'[id].status = "Archived"]_vars

\* C36: an execution is run at most once: an execute_script call counts
\* itself as running, and goes on to spawn the script, only for an execution
\* that is on record and Pending at that moment.
C36_RunsOnlyPending ==
    [][\A call \in BagToSet(calls) :
        execute_script_commit_running(call) =>
            /\ call.execution.id \in DOMAIN executions
            /\ executions[call.execution.id].status = "Pending"]_vars

\* C37: a create_execution that succeeds and a create_terminal that succeeds
\* each add exactly one new record: the id they store under was not in the
\* registry, so that no record is written over.
C37_CreatedIdIsNew ==
    [][/\ (exec_ret'.op = "create_execution" /\ exec_ret'.ok) =>
            \A c \in ScriptInputs, wd \in WorkingDirs, env \in EnvInputs :
                create_execution(c, wd, env) =>
                    /\ generate_execution_id(now) \notin DOMAIN executions
                    /\ DOMAIN executions' =
                            DOMAIN executions \cup {generate_execution_id(now)}
       /\ \A frame \in BagToSet(creating) :
            create_terminal_insert(frame) =>
                /\ generate_terminal_id(now) \notin DOMAIN terminals
                /\ DOMAIN terminals' =
                        DOMAIN terminals \cup {generate_terminal_id(now)}]_vars

\* the execute_script calls that have stored Running and not yet their result
committed_calls ==
    LET running == {c \in BagToSet(calls) : c.pc = "running"}
    IN  sum_over([c \in running |-> CopiesIn(c, calls)], running)

\* C38: the running counter equals the number of execute_script calls that
\* have committed the Running state and not yet committed their result; it is
\* never below zero, and it is 0 whenever no execute_script call is in flight,
\* whatever the runs came to and whatever was cancelled meanwhile.
C38_CounterCountsCalls ==
    /\ running_count = committed_calls
    /\ running_count >= 0
    /\ calls = EmptyBag => running_count = 0

\* C38 witness: two execute_script calls have been made and have returned, a
\* run that did not come to an exit code has left the execution Failed, and a
\* cancel_execution after it has been refused; no call is in flight.
C38_Witness ==
    /\ calls = EmptyBag
    /\ calls_started = 2
    /\ exec_ret = [op |-> "cancel_execution", ok |-> FALSE]
    /\ \E id \in DOMAIN executions :
            /\ executions[id].status = "Failed"
            /\ executions[id].exit_code = None

\* C39: in every persisted workspace record archived_at is set if and only if
\* the status is Archived, after any sequence of create, archive, restore,
\* update_workspace_status, access and tag and custom-field edits.
C39_ArchivedAtIffArchived ==
    \A id \in DOMAIN workspaces :
        workspaces[id].archived_at # None <=> workspaces[id].status = "Archived"

\* C39 witness: restore_workspace has just brought an archived workspace back,
\* and every record is Active again with no archived_at.
C39_Witness ==
    /\ ws_ret = [op |-> "restore_workspace", ok |-> TRUE]
    /\ workspaces # EmptyMap
    /\ \A id \in DOMAIN workspaces :
            /\ workspaces[id].status = "Active"
            /\ workspaces[id].archived_at = None
            /\ workspaces[id].last_accessed_at # None

\* the threads that hold the lock `name`
holder_of(name) == {t \in Threads : name \in locks[t].held}

\* the lock a thread asks for next, if its next step is a lock()
wanted_by(t) ==
    IF locks[t].steps # <<>> /\ Head(locks[t].steps).do = "lock"
    THEN {Head(locks[t].steps).on}
    ELSE {}

\* the threads in a call whose next step can be taken
can_step == {t \in Threads :
                /\ locks[t].steps # <<>>
                /\ \A name \in wanted_by(t) : holder_of(name) = {}}

\* C40: no interleaving of the ScriptExecutor calls deadlocks: no thread asks
\* for the executions lock while it holds running_count (so the order is
\* registry first and counter second, or either lock alone), whenever some
\* call is under way some thread can take its next step, and a call that has
\* returned holds neither lock.
C40_NoDeadlock ==
    /\ \A t \in Threads :
            "executions" \in wanted_by(t) => "running_count" \notin locks[t].held
    /\ (\E t \in Threads : locks[t].steps # <<>>) => can_step # {}
    /\ \A t \in Threads : locks[t].steps = <<>> => locks[t].held = {}

\* C40 witness: a thread inside execute_script holds the executions lock and
\* waits for running_count, which a create_execution on another thread holds
\* for its cap check.
C40_Witness ==
    \E t, u \in Threads :
        /\ t # u
        /\ locks[t].held = {"executions"}
        /\ wanted_by(t) = {"running_count"}
        /\ locks[u].held = {"running_count"}
        /\ t \notin can_step

====
